---- MODULE Spec2Model ----
(***************************************************************************)
(* Model of the OAuth2 user-authorization subsystem of feishu_mcp_sdk:     *)
(*   api/oauth_manager.py        OAuthManager (tokens, cache file,         *)
(*                               callback listener, exchange, refresh)     *)
(*   services/http_client_mixin.py  HTTPClientMixin._request (bearer       *)
(*                               injection, refresh / re-authorization on  *)
(*                               401, one retry)                           *)
(* Every action is one run of a coroutine between two suspension points    *)
(* (an await that leaves the event loop free), so that the interleavings   *)
(* of the model are those of a single asyncio event loop.                  *)
(***************************************************************************)
EXTENDS Integers, Sequences, FiniteSets, TLC

VARIABLES
    mgr,        \* OAuthManager._user_token / ._refresh_token
    cache,      \* the file ~/.feishu_mcp/tokens.json
    port,       \* who has localhost:oauth_callback_port bound
    pr,         \* per caller (asyncio task): position and locals
    fresh,      \* no operation was called on the manager since its construction
    disk,       \* the file system under ~/.feishu_mcp: "ok", or "faulty" (calls may fail)
    made,       \* how the last OAuthManager(...) call ended: "ok" or "raised"
    redirect    \* OAuthManager.oauth_redirect_uri: the configured callback path

vars == <<mgr, cache, port, pr, fresh, disk, made, redirect>>

-----------------------------------------------------------------------------
(* Values *)

None == "None"                       \* Python None
Empty == ""                          \* the empty string
Truthy(x) == x # None /\ x # Empty   \* Python truthiness of Optional[str]

AppId == "APP"                       \* self.app_id of the manager
AppIds == {"APP", "OTHER"}
AccessTokens == {"T1", "T2"}
RefreshTokens == {"R1", "R2"}
Codes == {"c1", "c2"}

\* paths: the route get_code registers, the default of settings.oauth_redirect_uri,
\* and the values oauth_redirect_uri may be configured to
CallbackRoute == "/oauth/callback"
DefaultRedirect == "/oauth/callback"
RedirectPaths == {"/oauth/callback", "/auth/done"}

Procs == {"p1"}                      \* tasks calling into the manager
Tasks == {"p1", "p2"}                \* the tasks of the concurrent specifications

\* bounds of the exploration
MaxCallbacks == 2    \* requests reaching the callback route per get_code()

\* _wait_for_port_release: elapsed = 0.0; while elapsed < 5.0: ...; elapsed += 0.1
\* in IEEE doubles the 50th sum is 4.999999999999998 < 5.0, so the body runs 51 times
PortWaitChecks == 51

-----------------------------------------------------------------------------
(* The cache file *)

NoFile == [kind |-> "absent", app_id |-> None, access_token |-> None,
           refresh_token |-> None]
CorruptFile == [kind |-> "corrupt", app_id |-> None, access_token |-> None,
                refresh_token |-> None]
Record(a, t, r) == [kind |-> "record", app_id |-> a, access_token |-> t,
                    refresh_token |-> r]

\* files the constructor may find: none, unparsable, or a record (a key that is
\* missing reads as None through dict.get)
CacheFiles ==
    {NoFile, CorruptFile} \cup
    { Record(a, t, r) : a \in AppIds,
                        t \in {"T1", None, Empty},
                        r \in {"R1", None} }

NoTokens == [user_token |-> None, refresh_token |-> None]

\* faulty variant: the app_id comparison is dropped
load_tokens_any_app(file) ==
    IF file.kind = "record"
    THEN [user_token |-> file.access_token, refresh_token |-> file.refresh_token]
    ELSE NoTokens

\* OAuthManager.__init__ + _load_tokens_from_cache: the tokens a new manager holds
load_tokens_from_cache(file) ==
    IF file.kind = "record" /\ file.app_id = AppId
    THEN [user_token |-> file.access_token, refresh_token |-> file.refresh_token]
    ELSE NoTokens

\* faulty variant: the record is written without the app_id
save_tokens_without_app_id(m) == Record(None, m.user_token, m.refresh_token)

\* _save_tokens_to_cache: the record written for the in-memory tokens m
save_tokens_to_cache(m) == Record(AppId, m.user_token, m.refresh_token)

\* how a call on the cache file or its directory may end on a file system:
\* "ok"; "denied" (mkdir, exists, open or unlink raises OSError, nothing is changed);
\* "partial" (open(.., "w") has truncated the file, json.dump raises)
IOOutcomes(fs) == IF fs = "ok" THEN {"ok"} ELSE {"ok", "denied", "partial"}

\* faulty variant: a record of another app_id is not overwritten
cache_after_save_keeps_foreign(file, m, io) ==
    IF file.kind = "record" /\ file.app_id # AppId THEN file
    ELSE CASE io = "ok" -> save_tokens_to_cache(m)
           [] io = "denied" -> file
           [] OTHER -> CorruptFile

\* the file after _save_tokens_to_cache (its except clause swallows the error)
cache_after_save(file, m, io) ==
    CASE io = "ok" -> save_tokens_to_cache(m)
      [] io = "denied" -> file
      [] OTHER -> CorruptFile

\* the file after the try block of clear_tokens (its except clause swallows the error)
cache_after_unlink(file, io) == IF io = "ok" THEN NoFile ELSE file

\* faulty variant: the constructor does not read the cache file
new_manager_no_load(file, mk, rd) ==
    [made |-> IF mk # "ok" THEN "raised" ELSE "ok", mgr |-> NoTokens]

\* OAuthManager(...): mkdir of the cache directory (line 65, outside any try), then
\* _load_tokens_from_cache (an unreadable file is a failed load)
new_manager(file, mk, rd) ==
    IF mk # "ok"
    THEN [made |-> "raised", mgr |-> NoTokens]
    ELSE [made |-> "ok",
          mgr |-> IF rd = "ok" THEN load_tokens_from_cache(file) ELSE NoTokens]

-----------------------------------------------------------------------------
(* The pending future of get_code() *)

NoFuture == [state |-> "none", value |-> None]
NewFuture == [state |-> "pending", value |-> None]
FutDone(f) == f.state \in {"result", "exception", "cancelled"}

NoCode == "nocode"      \* a callback request without a usable code parameter

-----------------------------------------------------------------------------
(* A task: its position in the operation it runs, the locals of the        *)
(* coroutines on its stack, and a record of what the operation did.        *)

NoRet == [kind |-> "none", val |-> None]

\* an answer of the token endpoint (as httpx delivers it); NoAnswer: none yet
TokResp(k, st, a, r) == [kind |-> k, status |-> st, access |-> a, refresh |-> r]
NoAnswer == TokResp("none", None, None, None)

NoArgs == [access_token |-> None, refresh_token |-> None]

\* _request(headers=...): the two header fields the code touches; an Authorization
\* value is <<scheme, credentials>>; <<>> and None = the field is not given
\* (headers=None and headers={} give the same)
NoHeaders == [auth |-> <<>>, ctype |-> None]
CallerHeaders == [auth : {<<>>, <<"Basic", "x">>}, ctype : {None, "text/plain"}]
Bearer(token) == <<"Bearer", token>>

\* faulty variant: Authorization is a default too, a caller's value wins
request_headers_setdefault(h, token) ==
    [h EXCEPT !.auth = IF @ = <<>> THEN Bearer(token) ELSE @,
              !.ctype = IF @ = None THEN "application/json" ELSE @]

\* lines 65-69: headers["Authorization"] = ...; headers.setdefault("Content-Type", ...)
request_headers(h, token) ==
    [h EXCEPT !.auth = Bearer(token),
              !.ctype = IF @ = None THEN "application/json" ELSE @]

\* lines 79 and 93: headers["Authorization"] = f"Bearer {new_token}"
retry_headers(h, token) == [h EXCEPT !.auth = Bearer(token)]

\* a response body: whether it is JSON (an object), and its "code" member
\* (<<>> = no such member)
NoBody == [json |-> FALSE, code |-> <<>>]
Bodies == {NoBody} \cup {[json |-> TRUE, code |-> c] : c \in {<<>>, <<0>>, <<7>>}}

\* faulty variant: the business code is not looked at
parse_response_any_code(status, body) ==
    IF status # "200" THEN [kind |-> "raised", val |-> "HTTPStatusError"]
    ELSE IF ~body.json THEN [kind |-> "raised", val |-> "JSONDecodeError"]
    ELSE [kind |-> "value", val |-> body]

\* _parse_response: raise_for_status(), response.json(), result.get("code") != 0
parse_response(status, body) ==
    IF status # "200" THEN [kind |-> "raised", val |-> "HTTPStatusError"]
    ELSE IF ~body.json THEN [kind |-> "raised", val |-> "JSONDecodeError"]
    ELSE IF body.code # <<0>> THEN [kind |-> "raised", val |-> "ValueError"]
    ELSE [kind |-> "value", val |-> body]

\* the operations of DocumentService and the _request calls each makes at most
DocumentOps ==
    {"list_documents", "get_document_content", "get_document_blocks",
     "get_document_info", "search_documents", "update_document", "create_blocks",
     "delete_blocks"}
CallsOf(op) == IF op = "get_document_content" THEN 2 ELSE 1

\* update_document(content, block_id, requests): one element of the "requests"
\* list of batch_update, reduced to its block and the text it sets
UpdateRequest(b, c) == [block_id |-> b, update_text_elements |-> c]
Contents == {None, Empty, "text"}
BlockIds == {None, Empty, "blk"}
\* requests: None, or a list (which may be empty)
NotGiven == [given |-> FALSE, list |-> <<>>]
RequestArgs ==
    {NotGiven} \cup
    {[given |-> TRUE, list |-> l] : l \in {<<>>, <<UpdateRequest("blk2", "styled")>>}}
NoUpdate == [content |-> None, block_id |-> None, requests |-> NotGiven, tool |-> FALSE]

\* the json argument of a call: {"requests": update_requests} for update_document,
\* not followed for the other operations
NoJson == [kind |-> "none", requests |-> <<>>]
Requests(l) == [kind |-> "requests", requests |-> l]
NothingToSend == [send |-> FALSE, mode |-> "none", json |-> NoJson]

\* faulty variant: an empty content or an empty requests list counts as missing
update_requests_truthy(content, block_id, requests) ==
    IF requests.given /\ requests.list # <<>>
    THEN [send |-> TRUE, mode |-> "advanced", json |-> Requests(requests.list)]
    ELSE IF Truthy(content) /\ Truthy(block_id)
         THEN [send |-> TRUE, mode |-> "simple",
               json |-> Requests(<<UpdateRequest(block_id, content)>>)]
         ELSE NothingToSend

\* update_document, lines 435-470: the mode and the requests to send, or the early
\* return of a failure result
update_requests(content, block_id, requests) ==
    IF requests.given
    THEN [send |-> TRUE, mode |-> "advanced", json |-> Requests(requests.list)]
    ELSE IF content # None /\ block_id # None
         THEN IF ~Truthy(block_id)
              THEN NothingToSend
              ELSE [send |-> TRUE, mode |-> "simple",
                    json |-> Requests(<<UpdateRequest(block_id, content)>>)]
         ELSE NothingToSend

\* server.update_document (the MCP tool): block_id=block_id if block_id else None
tool_block_id(b) == IF Truthy(b) THEN b ELSE None

IdleProc ==
    [top |-> "none",        \* the operation called from outside
     pc |-> "idle",         \* the await the task is suspended at
     stage |-> "none",      \* the caller of setup_user_token on the stack
     tok |-> None,          \* _request: user_token / new_token in the header
     code |-> None,         \* setup_user_token: code
     fut |-> NoFuture,      \* get_code: code_future
     site |-> "none",       \* get_code: site (none = None, created, bound, stopped)
     runner |-> "none",     \* get_code: runner (new, setup, clean)
     ticks |-> 0,           \* _wait_for_port_release: sleeps finished
     waited |-> FALSE,      \* get_code: _wait_for_port_release was entered
     pend |-> "none",       \* get_code: what leaves the try once finally is through
     gc |-> "none",         \* get_code: none, running, exited
     ret |-> NoRet,         \* what the operation returned or raised
     \* record of the running operation
     nOrig |-> 0,           \* client.request(...) calls issued by _request
     nTok |-> 0,            \* client.post(oauth_token_url) calls issued
     nFlows |-> 0,          \* get_code() calls
     nRefresh |-> 0,        \* refresh_access_token() calls
     nClear |-> 0,          \* clear_tokens() calls made by _request itself
     sent |-> <<>>,         \* bearer tokens of the calls issued by _request
     resp |-> <<>>,         \* statuses of the responses _request received
     newTok |-> None,       \* what refresh_access_token() returned
     rtSent |-> None,       \* refresh token in the refresh call
     rresp |-> "none",      \* how the token endpoint answered the refresh
     xresp |-> NoAnswer,    \* setup_user_token: the answer to get_access_token(code)
     arg |-> NoArgs,        \* set_tokens called from outside: its arguments
     calls |-> 0,           \* _request calls the calling DocumentService operation
                            \* makes at most (0: _request was called directly)
     call |-> 0,            \* which _request call of that operation this is
     track |-> FALSE,       \* headers and bodies of this _request are followed
     hdr |-> NoHeaders,     \* _request: headers as the caller passed them
     hsent |-> <<>>,        \* headers of the calls issued by _request
     body |-> NoBody,       \* body of the response _request received last
     uargs |-> NoUpdate,    \* update_document: the arguments of the caller
     json |-> NoJson,       \* the json argument the operation passes to _request
     jsent |-> <<>>,        \* json bodies of the calls issued by _request
     listened |-> FALSE,    \* a listener was bound in this operation
     browser |-> FALSE,     \* webbrowser.open was called in this operation
     \* record of the running get_code()
     nSets |-> 0,           \* set_result / set_exception calls on code_future
     cbRaised |-> FALSE,    \* handle_callback raised
     firstCb |-> None,      \* payload of the first request on the callback route
     setBy |-> 0,           \* which request on the route resolved code_future
     nCb |-> 0,             \* requests that reached the callback route
     n404 |-> 0,            \* redirects the listener answered 404 (no such route)
     cancels |-> <<>>,      \* the awaits at which a CancelledError was raised
     \* bookkeeping
     first |-> FALSE,       \* the operation is the first since construction
     pre |-> [mgr |-> NoTokens, cache |-> NoFile],   \* manager state when it started
     after401 |-> FALSE]    \* the task's operation before this one was a
                            \* refresh_access_token() the token endpoint answered 401

\* The part of the state one step of task p reads and writes
\* (ext: whether another process has the callback port bound at this moment)
\* (io: how the next call on the cache file ends; "ok" unless the caller says otherwise)
Cur(p, ext) ==
    [mgr |-> mgr, cache |-> cache, port |-> port, ext |-> ext, io |-> "ok",
     me |-> pr[p]]

Commit(p, s) ==
    /\ mgr' = s.mgr
    /\ cache' = s.cache
    /\ port' = s.port
    /\ pr' = [pr EXCEPT ![p] = s.me]

\* the operation called from outside returns val / raises the exception named val
returned(s, kind, val) ==
    [s EXCEPT !.me.pc = "done", !.me.ret = [kind |-> kind, val |-> val]]

\* faulty variant: the operation has no except clause
document_returned_uncaught(s, kind, val) ==
    IF kind = "raised"
    THEN returned(s, "raised", val)
    ELSE LET r == parse_response(val, s.me.body)
         IN IF r.kind = "raised" THEN returned(s, "raised", r.val)
            ELSE IF s.me.call < s.me.calls THEN [s EXCEPT !.me.pc = "next_call"]
            ELSE returned(s, "result", "success")

\* a DocumentService operation whose `await self._get(...)` (or _post, _patch,
\* _delete) returned a response or raised: result = self._parse_response(response),
\* then the next call or the result built from the parsed data; `except Exception`
\* turns whatever was raised into {"success": False, "msg": ...}; CancelledError is
\* no Exception. The data of a body is not followed: "success" stands for the result
\* built from it, which get_document_content, get_document_info and update_document
\* make a failure when the data lacks what they look for.
document_returned(s, kind, val) ==
    IF kind = "raised"
    THEN IF val = "CancelledError"
         THEN returned(s, "raised", val)
         ELSE returned(s, "result", "failure")
    ELSE LET r == parse_response(val, s.me.body)
         IN IF r.kind = "raised" THEN returned(s, "result", "failure")
            ELSE IF s.me.call < s.me.calls THEN [s EXCEPT !.me.pc = "next_call"]
            ELSE returned(s, "result", "success")

\* _request (or the operation called from outside) returns val / raises the
\* exception named val, to the DocumentService operation that called it if there is one
finish(s, kind, val) ==
    IF s.me.calls > 0
    THEN document_returned(s, kind, val)
    ELSE returned(s, kind, val)

-----------------------------------------------------------------------------
(* OAuthManager: token state *)

\* faulty variant: an omitted refresh token overwrites the one held
set_tokens_overwrites_refresh(s, access_token, refresh_token) ==
    LET m == [user_token |-> access_token, refresh_token |-> refresh_token]
    IN [s EXCEPT !.mgr = m, !.cache = cache_after_save(s.cache, m, s.io)]

\* faulty variant: the record is saved before the refresh token is replaced
set_tokens_saves_early(s, access_token, refresh_token) ==
    LET early == [user_token |-> access_token, refresh_token |-> s.mgr.refresh_token]
        m == [user_token |-> access_token,
              refresh_token |-> IF Truthy(refresh_token) THEN refresh_token
                                ELSE s.mgr.refresh_token]
    IN [s EXCEPT !.mgr = m, !.cache = cache_after_save(s.cache, early, s.io)]

\* OAuthManager.set_tokens
set_tokens(s, access_token, refresh_token) ==
    LET m == [user_token |-> access_token,
              refresh_token |-> IF Truthy(refresh_token) THEN refresh_token
                                ELSE s.mgr.refresh_token]
    IN [s EXCEPT !.mgr = m, !.cache = cache_after_save(s.cache, m, s.io)]

\* faulty variant: the cache file is left in place
clear_tokens_keeps_file(s) == [s EXCEPT !.mgr = NoTokens]

\* OAuthManager.clear_tokens
clear_tokens(s) ==
    [s EXCEPT !.mgr = NoTokens, !.cache = cache_after_unlink(s.cache, s.io)]

-----------------------------------------------------------------------------
(* HTTPClientMixin._request: issuing the call *)

\* faulty variant: the retry carries the token that was in the header before
issue_stale(s, token, at) ==
    [s EXCEPT !.me.nOrig = @ + 1,
              !.me.sent = Append(@, s.me.tok),
              !.me.pc = at]

\* headers["Authorization"] = f"Bearer {token}"; await client.request(...)
issue(s, token, at) ==
    [s EXCEPT !.me.tok = token,
              !.me.nOrig = @ + 1,
              !.me.sent = Append(@, token),
              !.me.jsent = Append(@, s.me.json),
              !.me.hsent = Append(@, IF @ = <<>>
                                     THEN request_headers(s.me.hdr, token)
                                     ELSE retry_headers(@[Len(@)], token)),
              !.me.pc = at]

-----------------------------------------------------------------------------
(* OAuthManager.get_code: entry *)

\* _is_port_in_use: bind() fails while anyone has the port bound
is_port_in_use(s) == s.ext \/ s.port # "free"

\* code_future = asyncio.Future(); app, runner; try: await runner.setup()
create_listener(s) ==
    [s EXCEPT !.me.fut = NewFuture, !.me.runner = "new", !.me.ticks = 0,
              !.me.pc = "gc_runner_setup"]

\* get_code up to its first suspension
get_code(s) ==
    LET s0 == [s EXCEPT !.me.fut = NoFuture, !.me.site = "none", !.me.runner = "none",
                        !.me.ticks = 0, !.me.waited = FALSE,
                        !.me.pend = "none", !.me.gc = "running",
                        !.me.code = None, !.me.xresp = NoAnswer, !.me.cancels = <<>>,
                        !.me.nFlows = @ + 1, !.me.nSets = 0, !.me.cbRaised = FALSE,
                        !.me.firstCb = None, !.me.setBy = 0, !.me.nCb = 0,
                        !.me.n404 = 0]
    IN IF is_port_in_use(s0)
       THEN [s0 EXCEPT !.me.waited = TRUE,     \* first check of the wait loop, then sleep
                       !.me.pc = "gc_poll"]
       ELSE create_listener(s0)

\* faulty variant: the tokens held are dropped before the authorization starts
setup_user_token_clears_first(s, caller) ==
    get_code([clear_tokens(s) EXCEPT !.me.stage = caller])

\* OAuthManager.setup_user_token up to its first suspension
setup_user_token(s, caller) == get_code([s EXCEPT !.me.stage = caller])

-----------------------------------------------------------------------------
(* Continuations: what runs, without suspension, once a callee returns *)

\* ensure_user_token returned token to its caller
ensured(s, token) ==
    IF s.me.top = "request"
    THEN issue(s, token, "send1")              \* _request: headers, first call
    ELSE finish(s, "value", token)             \* called directly

\* setup_user_token returned (tokens are set): back in ensure_user_token or _request
after_setup(s) ==
    CASE s.me.stage = "ensure" ->
            IF ~Truthy(s.mgr.user_token)
            THEN finish(s, "raised", "ValueError")
            ELSE ensured(s, s.mgr.user_token)
      [] s.me.stage = "reauth" ->
            IF ~Truthy(s.mgr.user_token)
            THEN finish(s, "raised", "ValueError")
            ELSE issue(s, s.mgr.user_token, "send2")
      [] OTHER -> finish(s, "value", None)     \* setup_user_token called directly

\* answers of the token endpoint
TokenResponses ==
    { TokResp("neterr", None, None, None),       \* httpx.RequestError
      TokResp("malformed", None, None, None),    \* 2xx, body not a JSON object
      TokResp("status", "401", None, None),      \* raise_for_status raises
      TokResp("status", "500", None, None) } \cup
    { TokResp("ok", "200", a, r) : a \in AccessTokens \cup {None, Empty},
                                   r \in RefreshTokens \cup {None} }

ExcOf(r) ==
    CASE r.kind = "status" -> "HTTPStatusError"
      [] r.kind = "neterr" -> "RequestError"
      [] OTHER -> "ValueError"

\* the frame of get_code is gone once its caller runs on: its locals are dropped
frame_dropped(s) ==
    [s EXCEPT !.me.fut = NoFuture, !.me.site = "none", !.me.runner = "none",
              !.me.waited = FALSE,
              !.me.pend = "none", !.me.gc = "none", !.me.nSets = 0,
              !.me.firstCb = None, !.me.setBy = 0, !.me.nCb = 0, !.me.n404 = 0,
              !.me.cbRaised = FALSE, !.me.cancels = <<>>]

\* faulty variant: the tokens are stored before access_token is looked at
token_exchanged_stores_first(s, r) ==
    LET s0 == [frame_dropped(s) EXCEPT !.me.xresp = r]
    IN IF r.kind # "ok"
       THEN finish(s0, "raised", ExcOf(r))
       ELSE IF ~Truthy(r.access)
            THEN finish(set_tokens(s0, r.access, r.refresh), "raised", "ValueError")
            ELSE after_setup(set_tokens(s0, r.access, r.refresh))

\* get_access_token returns / raises; rest of setup_user_token
token_exchanged(s, r) ==
    LET s0 == [frame_dropped(s) EXCEPT !.me.xresp = r]
    IN IF r.kind # "ok"
       THEN finish(s0, "raised", ExcOf(r))
       ELSE IF ~Truthy(r.access)
            THEN finish(s0, "raised", "ValueError")
            ELSE after_setup(set_tokens(s0, r.access, r.refresh))

\* faulty variant: without a token from the refresh the 401 is returned as it is
refreshed_no_reauth(s, token) ==
    LET s1 == [s EXCEPT !.me.newTok = token]
    IN IF s1.me.top # "request" THEN finish(s1, "value", token)
       ELSE IF Truthy(token) THEN issue(s1, token, "send2")
       ELSE finish(s1, "response", "401")

\* faulty variant: the re-authorization starts with the tokens left in place
refreshed_reauth_without_clear(s, token) ==
    LET s1 == [s EXCEPT !.me.newTok = token]
    IN IF s1.me.top # "request" THEN finish(s1, "value", token)
       ELSE IF Truthy(token) THEN issue(s1, token, "send2")
       ELSE setup_user_token([s1 EXCEPT !.me.nClear = @ + 1], "reauth")

\* refresh_access_token returned token: back in _request (lines 76-86)
refreshed(s, token) ==
    LET s1 == [s EXCEPT !.me.newTok = token]
    IN IF s1.me.top # "request" THEN finish(s1, "value", token)
       ELSE IF Truthy(token) THEN issue(s1, token, "send2")
       ELSE setup_user_token(
                [clear_tokens(s1) EXCEPT !.me.nClear = @ + 1], "reauth")

\* faulty variant: a 401 on the refresh leaves the tokens in place
refresh_response_keep_on_401(s, r) ==
    LET s0 == [s EXCEPT !.me.rresp = IF r.kind = "status" THEN r.status ELSE r.kind]
    IN CASE r.kind = "ok" ->
              refreshed(IF Truthy(r.access) THEN set_tokens(s0, r.access, r.refresh)
                        ELSE s0, r.access)
         [] r.kind = "status" -> refreshed(s0, None)
         [] OTHER -> refreshed(clear_tokens(s0), None)

\* faulty variant: the new token is returned without set_tokens
refresh_response_uncommitted(s, r) ==
    LET s0 == [s EXCEPT !.me.rresp = IF r.kind = "status" THEN r.status ELSE r.kind]
    IN CASE r.kind = "ok" -> refreshed(s0, r.access)
         [] r.kind = "status" ->
              refreshed(IF r.status = "401" THEN clear_tokens(s0) ELSE s0, None)
         [] OTHER -> refreshed(clear_tokens(s0), None)

\* refresh_access_token, from the answer of the token endpoint on (lines 336-353)
refresh_response(s, r) ==
    LET s0 == [s EXCEPT !.me.rresp = IF r.kind = "status" THEN r.status ELSE r.kind]
    IN CASE r.kind = "ok" ->
              refreshed(IF Truthy(r.access) THEN set_tokens(s0, r.access, r.refresh)
                        ELSE s0, r.access)
         [] r.kind = "status" ->
              refreshed(IF r.status = "401" THEN clear_tokens(s0) ELSE s0, None)
         [] OTHER -> refreshed(clear_tokens(s0), None)

\* faulty variant: the refresh call goes out even without a refresh token
refresh_access_token_always_calls(s) ==
    [s EXCEPT !.me.nRefresh = @ + 1, !.me.rtSent = s.mgr.refresh_token,
              !.me.nTok = @ + 1, !.me.pc = "refresh_wait"]

\* refresh_access_token up to its first suspension (lines 322-336)
refresh_access_token(s) ==
    LET s0 == [s EXCEPT !.me.nRefresh = @ + 1]
    IN IF ~Truthy(s0.mgr.refresh_token)
       THEN refreshed(s0, None)
       ELSE [s0 EXCEPT !.me.rtSent = s0.mgr.refresh_token,
                       !.me.nTok = @ + 1,
                       !.me.pc = "refresh_wait"]

\* faulty variant: the cached token is ignored, the flow always runs
ensure_user_token_always_setup(s) == setup_user_token(s, "ensure")

\* faulty variant: whatever is held is returned, without authorization
ensure_user_token_unchecked(s) == ensured(s, s.mgr.user_token)

\* ensure_user_token up to its first suspension
ensure_user_token(s) ==
    IF Truthy(s.mgr.user_token)
    THEN ensured(s, s.mgr.user_token)
    ELSE setup_user_token(s, "ensure")

\* statuses of the document API
ApiStatuses == {"200", "401", "500"}

\* faulty variant: a 401 on the retry is handled like the first one
request_retried_loop(s, status) ==
    LET s0 == [s EXCEPT !.me.resp = Append(@, status)]
    IN IF status = "401" /\ s0.me.nOrig < 3
       THEN refresh_access_token(s0)
       ELSE finish(s0, "response", status)

\* _request: the response of the retried call is returned (lines 80, 95-100)
request_retried(s, status) ==
    finish([s EXCEPT !.me.resp = Append(@, status)], "response", status)

\* faulty variant: every unsuccessful first response starts the refresh
request_response_refresh_on_error(s, status) ==
    LET s0 == [s EXCEPT !.me.resp = Append(@, status)]
    IN IF status # "200"
       THEN refresh_access_token(s0)
       ELSE finish(s0, "response", status)

\* _request: the response of the first call (lines 72-76)
request_response(s, status) ==
    LET s0 == [s EXCEPT !.me.resp = Append(@, status)]
    IN IF status = "401"
       THEN refresh_access_token(s0)           \* _refresh_token_if_needed
       ELSE finish(s0, "response", status)

-----------------------------------------------------------------------------
(* get_code: the callback handler *)

Payloads == Codes \cup {NoCode}     \* request.query.get("code"), falsy = NoCode

\* asyncio.Future.set_result / set_exception: InvalidStateError unless pending
fut_set(f, state, v) ==
    IF f.state = "pending"
    THEN [fut |-> [state |-> state, value |-> v], sets |-> 1, raised |-> FALSE]
    ELSE [fut |-> f, sets |-> 0, raised |-> TRUE]

\* faulty variant: the done() guards are missing
handle_callback_unguarded(f, q) ==
    IF q # NoCode
    THEN fut_set(f, "result", q)
    ELSE fut_set(f, "exception", "ValueError")

\* faulty variant: a code that arrives late replaces the cancellation
handle_callback_late_code_wins(f, q) ==
    IF q # NoCode
    THEN IF f.state \in {"pending", "cancelled"}
         THEN [fut |-> [state |-> "result", value |-> q], sets |-> 1, raised |-> FALSE]
         ELSE [fut |-> f, sets |-> 0, raised |-> FALSE]
    ELSE IF ~FutDone(f) THEN fut_set(f, "exception", "ValueError")
         ELSE [fut |-> f, sets |-> 0, raised |-> FALSE]

\* get_code.handle_callback (lines 193-211)
handle_callback(f, q) ==
    IF q # NoCode
    THEN IF ~FutDone(f) THEN fut_set(f, "result", q)
         ELSE [fut |-> f, sets |-> 0, raised |-> FALSE]
    ELSE IF ~FutDone(f) THEN fut_set(f, "exception", "ValueError")
         ELSE [fut |-> f, sets |-> 0, raised |-> FALSE]

\* if not code_future.done(): code_future.cancel()
fut_cancel(f) == IF FutDone(f) THEN f ELSE [state |-> "cancelled", value |-> None]

\* the listener of get_code serves GET path?code=q: app.router.add_get(
\* "/oauth/callback", handle_callback) is its only route, any other path is a 404
served(me, path, q) ==
    IF path # CallbackRoute
    THEN [me EXCEPT !.n404 = @ + 1]
    ELSE LET h == handle_callback(me.fut, q)
         IN [me EXCEPT !.fut = h.fut,
                       !.nSets = @ + h.sets,
                       !.cbRaised = @ \/ h.raised,
                       !.nCb = @ + 1,
                       !.firstCb = IF me.nCb = 0 THEN q ELSE @,
                       !.setBy = IF h.sets = 1 THEN me.nCb + 1 ELSE @]

\* the browser follows a redirect to redirect_uri (lines 228, 300):
\* http://localhost:{oauth_callback_port}{oauth_redirect_uri}, with or without a code
Callback(p) ==
    /\ pr[p].site = "bound"
    /\ pr[p].gc = "running"
    /\ pr[p].nCb + pr[p].n404 < MaxCallbacks
    /\ \E q \in Payloads : pr' = [pr EXCEPT ![p] = served(pr[p], redirect, q)]
    /\ UNCHANGED <<mgr, cache, port, fresh, disk, made, redirect>>

-----------------------------------------------------------------------------
(* get_code: the steps of the coroutine *)

\* get_code raised before the try block (port conflict) or left the finally block
get_code_exit(s) ==
    LET s1 == [s EXCEPT !.me.gc = "exited"]
    IN IF s1.me.pend = "return"
       THEN [s1 EXCEPT !.me.code = s1.me.fut.value,     \* get_access_token(code)
                       !.me.nTok = @ + 1,
                       !.me.pc = "exchange"]
       ELSE finish(s1, "raised", s1.me.pend)

\* faulty variant: the port conflict is raised after the first sleep
wait_for_port_release_once(s) ==
    get_code_exit([s EXCEPT !.me.ticks = @ + 1, !.me.pend = "OSError"])

\* _wait_for_port_release from the end of a sleep on: elapsed += check_interval, the
\* loop test, the next check; True continues get_code, False raises the port conflict
wait_for_port_release(s) ==
    LET s1 == [s EXCEPT !.me.ticks = @ + 1]
    IN IF s1.me.ticks >= PortWaitChecks
       THEN get_code_exit([s1 EXCEPT !.me.pend = "OSError"])
       ELSE IF is_port_in_use(s1) THEN s1 ELSE create_listener(s1)

\* asyncio.sleep(check_interval) in _wait_for_port_release is over
PollPort(p) ==
    /\ pr[p].pc = "gc_poll"
    /\ \E ext \in BOOLEAN : Commit(p, wait_for_port_release(Cur(p, ext)))
    /\ UNCHANGED <<fresh, disk, made, redirect>>

\* await runner.setup() is over; site = web.TCPSite(...); await site.start()
RunnerSetup(p) ==
    /\ pr[p].pc = "gc_runner_setup"
    /\ pr' = [pr EXCEPT ![p].runner = "setup", ![p].site = "created",
                        ![p].pc = "gc_site_start"]
    /\ UNCHANGED <<mgr, cache, port, fresh, disk, made, redirect>>

\* the try block is left (return or raise): the finally block starts (lines 265-270)
leave_try(s, how) ==
    [s EXCEPT !.me.pend = how,
              !.me.pc = IF s.me.site # "none" THEN "gc_stop_site" ELSE "gc_cleanup"]

\* faulty variant: the listener binds although the port is taken
site_started_port_shared(s, p) ==
    [s EXCEPT !.port = p, !.me.site = "bound", !.me.listened = TRUE,
              !.me.browser = TRUE, !.me.pc = "gc_wait"]

\* get_code from the end of await site.start() on: the socket is bound and the
\* browser opened, or bind() raised OSError (caught by except Exception)
site_started(s, p) ==
    IF ~is_port_in_use(s)
    THEN [s EXCEPT !.port = p, !.me.site = "bound", !.me.listened = TRUE,
                   !.me.browser = TRUE,          \* webbrowser.open(auth_url)
                   !.me.pc = "gc_wait"]          \* await wait_for(code_future)
    ELSE leave_try([s EXCEPT !.me.fut = fut_cancel(@)], "OSError")

\* await site.start() is over
SiteStart(p) ==
    /\ pr[p].pc = "gc_site_start"
    /\ \E ext \in BOOLEAN : Commit(p, site_started(Cur(p, ext), p))
    /\ UNCHANGED <<fresh, disk, made, redirect>>

\* await asyncio.wait_for(code_future) is over: the future is done
WaitDone(p) ==
    /\ pr[p].pc = "gc_wait"
    /\ pr[p].fut.state \in {"result", "exception"}
    /\ Commit(p, leave_try(Cur(p, FALSE), IF pr[p].fut.state = "result" THEN "return"
                                   ELSE "ValueError"))
    /\ UNCHANGED <<fresh, disk, made, redirect>>

\* faulty variant: the wait for the code has no timeout
Timeout_never(p) ==
    /\ pr[p].pc = "gc_wait"
    /\ pr[p].fut.state = "pending"
    /\ UNCHANGED vars

\* wait_for times out: the future is cancelled, TimeoutError is raised
Timeout(p) ==
    /\ pr[p].pc = "gc_wait"
    /\ pr[p].fut.state = "pending"
    /\ Commit(p, leave_try([Cur(p, FALSE) EXCEPT !.me.fut = fut_cancel(@)], "TimeoutError"))
    /\ UNCHANGED <<fresh, disk, made, redirect>>

\* CancelledError raised at an await of the finally block: no handler there catches
\* it (except Exception does not), the rest of the block is skipped. Whether the
\* awaited call had taken effect already (came) is up to aiohttp.
cancel_in_finally(s, came) ==
    LET s1 == IF ~came THEN s
              ELSE CASE s.me.pc = "gc_stop_site" /\ s.me.site = "bound" ->
                            [s EXCEPT !.port = "free", !.me.site = "stopped"]
                     [] s.me.pc = "gc_cleanup" ->
                            [s EXCEPT !.me.runner = "clean"]
                     [] OTHER -> s
    IN get_code_exit([s1 EXCEPT !.me.pend = "CancelledError"])

\* Task.cancel(): CancelledError is raised at the await the task is suspended at
Cancel(p) ==
    /\ pr[p].gc = "running"
    /\ \E came \in BOOLEAN :
       LET s == [Cur(p, FALSE) EXCEPT !.me.cancels = Append(@, pr[p].pc)]
       IN Commit(p,
            CASE s.me.pc = "gc_poll" ->         \* before the try block
                    get_code_exit([s EXCEPT !.me.pend = "CancelledError"])
              [] s.me.pc \in {"gc_runner_setup", "gc_site_start"} ->
                    leave_try(s, "CancelledError")
              [] s.me.pc = "gc_wait" ->         \* except asyncio.CancelledError
                    leave_try([s EXCEPT !.me.fut = fut_cancel(@)], "CancelledError")
              [] OTHER -> cancel_in_finally(s, came))
    /\ UNCHANGED <<fresh, disk, made, redirect>>

\* await site.stop() is over (an exception it raises is ignored)
SiteStop(p) ==
    /\ pr[p].pc = "gc_stop_site"
    /\ LET s == Cur(p, FALSE)
       IN Commit(p,
            IF s.me.site = "bound"
            THEN [s EXCEPT !.port = "free", !.me.site = "stopped", !.me.pc = "gc_cleanup"]
            ELSE [s EXCEPT !.me.pc = "gc_cleanup"])
    /\ UNCHANGED <<fresh, disk, made, redirect>>

\* await runner.cleanup() is over (it stops the sites still registered)
RunnerCleanup(p) ==
    /\ pr[p].pc = "gc_cleanup"
    /\ LET s == Cur(p, FALSE)
       IN Commit(p,
            IF s.me.site = "bound"
            THEN [s EXCEPT !.port = "free", !.me.site = "stopped",
                           !.me.runner = "clean", !.me.pc = "gc_grace"]
            ELSE [s EXCEPT !.me.runner = "clean", !.me.pc = "gc_grace"])
    /\ UNCHANGED <<fresh, disk, made, redirect>>

\* await asyncio.sleep(0.1) is over: get_code returns or raises
Grace(p) ==
    /\ pr[p].pc = "gc_grace"
    /\ Commit(p, get_code_exit(Cur(p, FALSE)))
    /\ UNCHANGED <<fresh, disk, made, redirect>>

-----------------------------------------------------------------------------
(* Answers from the network *)

\* the token endpoint answers the authorization-code exchange
ExchangeResponse(p) ==
    /\ pr[p].pc = "exchange"
    /\ \E r \in TokenResponses : Commit(p, token_exchanged(Cur(p, FALSE), r))
    /\ UNCHANGED <<fresh, disk, made, redirect>>

\* the token endpoint answers the refresh
RefreshResponse(p) ==
    /\ pr[p].pc = "refresh_wait"
    /\ \E r \in TokenResponses, ext \in BOOLEAN :
         Commit(p, refresh_response(Cur(p, ext), r))
    /\ UNCHANGED <<fresh, disk, made, redirect>>

\* the document API answers the first call of _request
\* the bodies the API may answer the call of task p with (one when the bodies of the
\* operation are not followed; that of a first 401, which nothing reads, is not)
ResponseBodies(p) == IF pr[p].track THEN Bodies ELSE {NoBody}

\* faulty variant: a single-flight guard; an invocation that receives 401 while
\* another one is refreshing or re-authorizing waits for it instead of starting its own
FirstResponse_single_flight(p) ==
    /\ pr[p].pc = "send1"
    /\ \E st \in ApiStatuses, ext \in BOOLEAN :
         IF st = "401" /\ \E q \in DOMAIN pr \ {p} :
                             pr[q].top = "request" /\ pr[q].nRefresh > 0 /\ pr[q].pc # "done"
         THEN /\ pr' = [pr EXCEPT ![p].resp = <<st>>]
              /\ UNCHANGED <<mgr, cache, port>>
         ELSE Commit(p, request_response(Cur(p, ext), st))
    /\ UNCHANGED <<fresh, disk, made, redirect>>

FirstResponse(p) ==
    /\ pr[p].pc = "send1"
    /\ \E st \in ApiStatuses, ext \in BOOLEAN :
       \E b \in IF st = "401" THEN {NoBody} ELSE ResponseBodies(p) :
         Commit(p, request_response([Cur(p, ext) EXCEPT !.me.body = b], st))
    /\ UNCHANGED <<fresh, disk, made, redirect>>

\* the document API answers the retried call of _request
RetryResponse(p) ==
    /\ pr[p].pc = "send2"
    /\ \E st \in ApiStatuses, b \in ResponseBodies(p) :
         Commit(p, request_retried([Cur(p, FALSE) EXCEPT !.me.body = b], st))
    /\ UNCHANGED <<fresh, disk, made, redirect>>

\* a call of _request fails below HTTP (httpx.RequestError propagates)
NetworkError(p) ==
    /\ pr[p].pc \in {"send1", "send2"}
    /\ Commit(p, finish(Cur(p, FALSE), "raised", "RequestError"))
    /\ UNCHANGED <<fresh, disk, made, redirect>>

-----------------------------------------------------------------------------
(* Operations called from outside *)

CanStart(p) == made = "ok" /\ pr[p].pc \in {"idle", "done"}

\* the task's record at the start of operation top
Started(p, top, ext) ==
    [Cur(p, ext) EXCEPT !.me =
        [IdleProc EXCEPT !.top = top,
                         !.first = fresh,
                         !.after401 = (pr[p].top = "refresh" /\ pr[p].rresp = "401"),
                         !.pre = [mgr |-> mgr, cache |-> cache]]]

Used == fresh' = FALSE /\ UNCHANGED <<disk, made, redirect>>

\* HTTPClientMixin._request(method, url, ...)
StartRequest(p) ==
    /\ CanStart(p)
    /\ \E ext \in BOOLEAN : Commit(p, ensure_user_token(Started(p, "request", ext)))
    /\ Used

\* OAuthManager.ensure_user_token()
StartEnsure(p) ==
    /\ CanStart(p)
    /\ \E ext \in BOOLEAN : Commit(p, ensure_user_token(Started(p, "ensure", ext)))
    /\ Used

\* OAuthManager.refresh_access_token()
StartRefresh(p) ==
    /\ CanStart(p)
    /\ Commit(p, refresh_access_token(Started(p, "refresh", FALSE)))
    /\ Used

\* OAuthManager.setup_user_token()
StartSetup(p) ==
    /\ CanStart(p)
    /\ \E ext \in BOOLEAN :
         Commit(p, setup_user_token(Started(p, "setup", ext), "direct"))
    /\ Used

\* OAuthManager.set_tokens(access_token, refresh_token)
SetTokens(p) ==
    /\ CanStart(p)
    /\ \E a \in AccessTokens, r \in RefreshTokens \cup {None, Empty},
          io \in IOOutcomes(disk) :
         LET s == [Started(p, "set_tokens", FALSE) EXCEPT
                      !.io = io,
                      !.me.arg = [access_token |-> a, refresh_token |-> r]]
         IN Commit(p, finish(set_tokens(s, a, r), "value", None))
    /\ Used

\* OAuthManager.clear_tokens()
ClearTokens(p) ==
    /\ CanStart(p)
    /\ \E io \in IOOutcomes(disk) :
         LET s == [Started(p, "clear_tokens", FALSE) EXCEPT !.io = io]
         IN Commit(p, finish(clear_tokens(s), "value", None))
    /\ Used

\* OAuthManager(...): a new manager over the same cache file
Construct ==
    /\ \A p \in DOMAIN pr : pr[p].pc \in {"idle", "done"}
    /\ \E mk \in IOOutcomes(disk) \ {"partial"}, rd \in IOOutcomes(disk) \ {"partial"} :
         /\ mgr' = new_manager(cache, mk, rd).mgr
         /\ made' = new_manager(cache, mk, rd).made
    /\ fresh' = TRUE
    /\ pr' = [p \in DOMAIN pr |-> IdleProc]
    /\ UNCHANGED <<cache, port, disk, redirect>>

-----------------------------------------------------------------------------

Init ==
    /\ cache \in CacheFiles
    /\ disk = "ok"
    /\ made = new_manager(cache, "ok", "ok").made
    /\ mgr = new_manager(cache, "ok", "ok").mgr
    /\ fresh = TRUE
    /\ port = "free"
    /\ redirect = DefaultRedirect
    /\ pr = [p \in Procs |-> IdleProc]

Next ==
    \/ \E p \in Procs : StartRequest(p)
    \/ \E p \in Procs : StartEnsure(p)
    \/ \E p \in Procs : StartRefresh(p)
    \/ \E p \in Procs : StartSetup(p)
    \/ \E p \in Procs : SetTokens(p)
    \/ \E p \in Procs : ClearTokens(p)
    \/ \E p \in Procs : FirstResponse(p)
    \/ \E p \in Procs : RefreshResponse(p)
    \/ \E p \in Procs : RetryResponse(p)
    \/ \E p \in Procs : NetworkError(p)
    \/ \E p \in Procs : ExchangeResponse(p)
    \/ \E p \in Procs : PollPort(p)
    \/ \E p \in Procs : RunnerSetup(p)
    \/ \E p \in Procs : SiteStart(p)
    \/ \E p \in Procs : Callback(p)
    \/ \E p \in Procs : WaitDone(p)
    \/ \E p \in Procs : Timeout(p)
    \/ \E p \in Procs : Cancel(p)
    \/ \E p \in Procs : SiteStop(p)
    \/ \E p \in Procs : RunnerCleanup(p)
    \/ \E p \in Procs : Grace(p)
    \/ Construct

Spec == Init /\ [][Next]_vars

-----------------------------------------------------------------------------
(* A file system on which calls may fail: the operations that touch the    *)
(* cache file without suspending                                           *)

\* a manager constructed (its mkdir went through) over any cache file
InitIO ==
    /\ cache \in CacheFiles
    /\ disk = "faulty"
    /\ made = "ok"
    /\ \E rd \in IOOutcomes("faulty") \ {"partial"} :
         mgr = new_manager(cache, "ok", rd).mgr
    /\ fresh = TRUE
    /\ port = "free"
    /\ redirect = DefaultRedirect
    /\ pr = [p \in Procs |-> IdleProc]

NextIO ==
    \/ \E p \in Procs : SetTokens(p)
    \/ \E p \in Procs : ClearTokens(p)
    \/ Construct

SpecIO == InitIO /\ [][NextIO]_vars

-----------------------------------------------------------------------------
(* The document API: _request with the caller's headers, DocumentService operations *)

\* a caller passes its own headers to _request (_get, _post, ... pass them through)
StartRequestWith(p) ==
    /\ CanStart(p)
    /\ \E ext \in BOOLEAN, h \in CallerHeaders :
         Commit(p, ensure_user_token([Started(p, "request", ext) EXCEPT
                                         !.me.hdr = h, !.me.track = TRUE]))
    /\ Used

\* direct _request calls; the callback port is free when a re-authorization starts,
\* the user answers before the timeout and the task is not cancelled
NextHeaders ==
    \/ \E p \in Procs : StartRequestWith(p)
    \/ \E p \in Procs : FirstResponse(p)
    \/ \E p \in Procs : RefreshResponse(p)
    \/ \E p \in Procs : RetryResponse(p)
    \/ \E p \in Procs : NetworkError(p)
    \/ \E p \in Procs : ExchangeResponse(p)
    \/ \E p \in Procs : RunnerSetup(p)
    \/ \E p \in Procs : SiteStart(p)
    \/ \E p \in Procs : Callback(p)
    \/ \E p \in Procs : WaitDone(p)
    \/ \E p \in Procs : SiteStop(p)
    \/ \E p \in Procs : RunnerCleanup(p)
    \/ \E p \in Procs : Grace(p)

SpecHeaders == Init /\ [][NextHeaders]_vars

\* `response = await self._get(uri)` (or _post, _patch, _delete) inside the try block
\* of a DocumentService operation making up to n calls; no operation passes headers
document_call(s, n, k) ==
    ensure_user_token([s EXCEPT !.me.calls = n, !.me.call = k, !.me.track = TRUE])

\* a DocumentService operation is called
StartDocument(p) ==
    /\ CanStart(p)
    /\ \E ext \in BOOLEAN, op \in DocumentOps :
         Commit(p, document_call(Started(p, "request", ext), CallsOf(op), 1))
    /\ Used

\* get_document_content, its first response parsed, calls _get for the raw content
NextCall(p) ==
    /\ pr[p].pc = "next_call"
    /\ \E ext \in BOOLEAN :
         Commit(p, document_call(Started(p, "request", ext),
                                 pr[p].calls, pr[p].call + 1))
    /\ UNCHANGED <<fresh, disk, made, redirect>>

\* DocumentService operations; the task is not cancelled
NextDocuments ==
    \/ \E p \in Procs : StartDocument(p)
    \/ \E p \in Procs : NextCall(p)
    \/ \E p \in Procs : FirstResponse(p)
    \/ \E p \in Procs : RefreshResponse(p)
    \/ \E p \in Procs : RetryResponse(p)
    \/ \E p \in Procs : NetworkError(p)
    \/ \E p \in Procs : ExchangeResponse(p)
    \/ \E p \in Procs : PollPort(p)
    \/ \E p \in Procs : RunnerSetup(p)
    \/ \E p \in Procs : SiteStart(p)
    \/ \E p \in Procs : Callback(p)
    \/ \E p \in Procs : WaitDone(p)
    \/ \E p \in Procs : Timeout(p)
    \/ \E p \in Procs : SiteStop(p)
    \/ \E p \in Procs : RunnerCleanup(p)
    \/ \E p \in Procs : Grace(p)

SpecDocuments == Init /\ [][NextDocuments]_vars

\* update_document is called, through the MCP tool or directly
StartUpdate(p) ==
    /\ CanStart(p)
    /\ \E ext \in BOOLEAN, c \in Contents, b \in BlockIds, r \in RequestArgs,
          tool \in BOOLEAN :
         LET plan == update_requests(c, IF tool THEN tool_block_id(b) ELSE b, r)
             s == [Started(p, "request", ext) EXCEPT
                      !.me.uargs = [content |-> c, block_id |-> b, requests |-> r,
                                    tool |-> tool],
                      !.me.json = plan.json]
         IN Commit(p, IF plan.send
                      THEN document_call(s, 1, 1)      \* await self._patch(uri, json=params)
                      ELSE returned([s EXCEPT !.me.calls = 1, !.me.call = 1],
                                    "result", "failure"))
    /\ Used

\* update_document calls on a manager; an authorization they start is left waiting
NextUpdate ==
    \/ \E p \in Procs : StartUpdate(p)
    \/ \E p \in Procs : FirstResponse(p)
    \/ \E p \in Procs : RefreshResponse(p)
    \/ \E p \in Procs : RetryResponse(p)
    \/ \E p \in Procs : NetworkError(p)

SpecUpdate == Init /\ [][NextUpdate]_vars

-----------------------------------------------------------------------------
(* _request invocations one after another, each step of the event loop fair *)

NextPipeline ==
    \/ \E p \in Procs : StartRequest(p)
    \/ \E p \in Procs : FirstResponse(p)
    \/ \E p \in Procs : RefreshResponse(p)
    \/ \E p \in Procs : RetryResponse(p)
    \/ \E p \in Procs : NetworkError(p)
    \/ \E p \in Procs : ExchangeResponse(p)
    \/ \E p \in Procs : PollPort(p)
    \/ \E p \in Procs : RunnerSetup(p)
    \/ \E p \in Procs : SiteStart(p)
    \/ \E p \in Procs : Callback(p)
    \/ \E p \in Procs : WaitDone(p)
    \/ \E p \in Procs : Timeout(p)
    \/ \E p \in Procs : Cancel(p)
    \/ \E p \in Procs : SiteStop(p)
    \/ \E p \in Procs : RunnerCleanup(p)
    \/ \E p \in Procs : Grace(p)

\* every HTTP call returns or fails (httpx applies its timeouts), every await of
\* get_code completes, and the wait for the code ends by the future or by its timer
FairPipeline ==
    \A p \in Procs :
        /\ WF_vars(FirstResponse(p) \/ NetworkError(p))
        /\ WF_vars(RetryResponse(p) \/ NetworkError(p))
        /\ WF_vars(RefreshResponse(p))
        /\ WF_vars(ExchangeResponse(p))
        /\ WF_vars(PollPort(p))
        /\ WF_vars(RunnerSetup(p))
        /\ WF_vars(SiteStart(p))
        /\ WF_vars(WaitDone(p) \/ Timeout(p))
        /\ WF_vars(SiteStop(p))
        /\ WF_vars(RunnerCleanup(p))
        /\ WF_vars(Grace(p))

SpecPipeline == Init /\ [][NextPipeline]_vars /\ FairPipeline

-----------------------------------------------------------------------------
(* Several manager instances over one cache file *)

\* another OAuthManager instance (of this or another app) sets or clears its tokens,
\* or the file is damaged: the file changes, this manager is not involved
OtherInstance ==
    /\ cache' \in CacheFiles
    /\ UNCHANGED <<mgr, port, pr, fresh, disk, made, redirect>>

NextInstances ==
    \/ \E p \in Procs : SetTokens(p)
    \/ \E p \in Procs : ClearTokens(p)
    \/ \E p \in Procs : StartEnsure(p)
    \/ \E p \in Procs : StartRefresh(p)
    \/ \E p \in Procs : RefreshResponse(p)
    \/ Construct
    \/ OtherInstance

SpecInstances == Init /\ [][NextInstances]_vars

-----------------------------------------------------------------------------
(* Two tasks on one manager and one event loop, each running one operation *)

InitTwo ==
    /\ cache \in {NoFile, Record(AppId, "T1", "R1")}
    /\ disk = "ok"
    /\ made = new_manager(cache, "ok", "ok").made
    /\ mgr = new_manager(cache, "ok", "ok").mgr
    /\ fresh = TRUE
    /\ port = "free"
    /\ redirect = DefaultRedirect
    /\ pr = [p \in Tasks |-> IdleProc]

\* task p, which has not run anything yet, calls _request
FirstRequest(p) == pr[p].pc = "idle" /\ StartRequest(p)

\* task p, which has not run anything yet, calls setup_user_token
FirstSetup(p) == pr[p].pc = "idle" /\ StartSetup(p)

\* two _request() invocations; a re-authorization they start is left waiting
NextRequests ==
    \/ \E p \in Tasks : FirstRequest(p)
    \/ \E p \in Tasks : FirstResponse(p)
    \/ \E p \in Tasks : RefreshResponse(p)
    \/ \E p \in Tasks : RetryResponse(p)
    \/ \E p \in Tasks : NetworkError(p)

SpecRequests == InitTwo /\ [][NextRequests]_vars

\* two authorization flows
NextFlows ==
    \/ \E p \in Tasks : FirstSetup(p)
    \/ \E p \in Tasks : PollPort(p)
    \/ \E p \in Tasks : RunnerSetup(p)
    \/ \E p \in Tasks : SiteStart(p)
    \/ \E p \in Tasks : Callback(p)
    \/ \E p \in Tasks : WaitDone(p)
    \/ \E p \in Tasks : Timeout(p)
    \/ \E p \in Tasks : Cancel(p)
    \/ \E p \in Tasks : SiteStop(p)
    \/ \E p \in Tasks : RunnerCleanup(p)
    \/ \E p \in Tasks : Grace(p)
    \/ \E p \in Tasks : ExchangeResponse(p)

SpecFlows == InitTwo /\ [][NextFlows]_vars

-----------------------------------------------------------------------------
(* One task running authorizations, for every configured callback path *)

InitAuth ==
    /\ cache \in {NoFile, Record(AppId, "T1", "R1")}
    /\ disk = "ok"
    /\ made = new_manager(cache, "ok", "ok").made
    /\ mgr = new_manager(cache, "ok", "ok").mgr
    /\ fresh = TRUE
    /\ port = "free"
    /\ redirect \in RedirectPaths
    /\ pr = [p \in Procs |-> IdleProc]

NextAuth ==
    \/ \E p \in Procs : StartSetup(p)
    \/ \E p \in Procs : PollPort(p)
    \/ \E p \in Procs : RunnerSetup(p)
    \/ \E p \in Procs : SiteStart(p)
    \/ \E p \in Procs : Callback(p)
    \/ \E p \in Procs : WaitDone(p)
    \/ \E p \in Procs : Timeout(p)
    \/ \E p \in Procs : Cancel(p)
    \/ \E p \in Procs : SiteStop(p)
    \/ \E p \in Procs : RunnerCleanup(p)
    \/ \E p \in Procs : Grace(p)
    \/ \E p \in Procs : ExchangeResponse(p)

SpecAuth == InitAuth /\ [][NextAuth]_vars

\* The event loop resumes a coroutine whose await is over: a sleep ends, the awaited
\* aiohttp call completes, the future waited for is done or the timer of wait_for
\* fires. Callbacks, cancellations, new operations and answers of the token endpoint
\* are up to the environment.
FairAuth ==
    \A p \in Procs :
        /\ WF_vars(PollPort(p))
        /\ WF_vars(RunnerSetup(p))
        /\ WF_vars(SiteStart(p))
        /\ WF_vars(WaitDone(p) \/ Timeout(p))
        /\ WF_vars(SiteStop(p))
        /\ WF_vars(RunnerCleanup(p))
        /\ WF_vars(Grace(p))

SpecAuthFair == SpecAuth /\ FairAuth

-----------------------------------------------------------------------------
(* Properties *)

Matching(file) == file.kind = "record" /\ file.app_id = AppId
Mismatched(file) == file.kind = "record" /\ file.app_id # AppId
Done(p) == pr[p].pc = "done"
Returned(p, v) == Done(p) /\ pr[p].ret = [kind |-> "value", val |-> v]
HttpCalls(p) == pr[p].nOrig + pr[p].nTok

\* C1: a manager constructed over a cache record of its own app_id with a non-empty
\* access_token returns that stored token from ensure_user_token(), and does so
\* without a listener, without opening the browser, without a get_code() call and
\* without any call to the token endpoint.
C1_CachedTokenReturned ==
    \A p \in Procs :
        ( /\ pr[p].top = "ensure"
          /\ pr[p].first
          /\ Matching(pr[p].pre.cache)
          /\ Truthy(pr[p].pre.cache.access_token) )
        => /\ Returned(p, pr[p].pre.cache.access_token)
           /\ pr[p].nFlows = 0
           /\ pr[p].nTok = 0
           /\ ~pr[p].listened
           /\ ~pr[p].browser

C1_Witness ==
    \E p \in Procs :
        /\ pr[p].top = "ensure" /\ pr[p].first /\ Done(p)
        /\ Matching(pr[p].pre.cache)
        /\ pr[p].pre.cache.access_token = "T1"
        /\ pr[p].ret.val = "T1"

\* C2: a manager constructed over a cache record of another app_id holds no access
\* token and no refresh token, as if there were no file; its first ensure_user_token()
\* or _request() therefore runs the authorization flow and its first
\* refresh_access_token() returns None without a call.
C2_ForeignRecordIgnored ==
    /\ (fresh /\ Mismatched(cache)) => mgr = load_tokens_from_cache(NoFile)
    /\ \A p \in Procs :
         (pr[p].first /\ Mismatched(pr[p].pre.cache)) =>
            /\ pr[p].pre.mgr = NoTokens
            /\ pr[p].top \in {"ensure", "request"} => pr[p].nFlows >= 1
            /\ pr[p].top = "refresh" => (Returned(p, None) /\ pr[p].nTok = 0)
            /\ (pr[p].top = "request" /\ pr[p].nOrig >= 1) => pr[p].nTok >= 1

C2_Witness ==
    /\ fresh
    /\ Mismatched(cache)
    /\ cache.access_token = "T1"
    /\ cache.refresh_token = "R1"
    /\ mgr = NoTokens

\* C3: when the first response of a _request() is 401 and the refresh returns a new
\* token, the call is issued once more with that token, the response to it is the
\* result whatever its status, there is no third call, no second refresh, no
\* clear_tokens() and no authorization.
C3_RefreshThenOneRetry ==
    \A p \in Procs :
        ( /\ pr[p].top = "request"
          /\ Len(pr[p].resp) >= 1
          /\ pr[p].resp[1] = "401"
          /\ Truthy(pr[p].newTok) )
        => /\ pr[p].nOrig = 2
           /\ pr[p].sent[2] = pr[p].newTok
           /\ pr[p].nRefresh = 1
           /\ pr[p].stage # "reauth"
           /\ pr[p].nClear = 0
           /\ pr[p].pc \in {"send2", "done"}
           /\ (Done(p) /\ pr[p].ret.kind = "response") =>
                 (Len(pr[p].resp) = 2 /\ pr[p].ret.val = pr[p].resp[2])
           /\ (Done(p) /\ pr[p].ret.kind = "raised") =>
                 (Len(pr[p].resp) = 1 /\ pr[p].ret.val = "RequestError")

C3_Witness ==
    \E p \in Procs :
        /\ pr[p].top = "request" /\ Done(p)
        /\ pr[p].resp = <<"401", "401">>
        /\ pr[p].sent = <<"T1", "T2">>
        /\ pr[p].newTok = "T2"
        /\ pr[p].ret = [kind |-> "response", val |-> "401"]

\* C4 as claimed: one _request() issues at most 3 HTTP calls (the call, the
\* token-endpoint calls, the retry) on every path.
C4_AtMostThreeCalls ==
    \A p \in Procs : pr[p].top = "request" => HttpCalls(p) <= 3

\* C4 as amended: one _request() issues at most 5 HTTP calls, and at most 4 when the
\* manager holds an access token as it starts: the call and one retry, at most one
\* refresh call, and at most one authorization-code exchange before the call and one
\* after a failed refresh.
C4_AtMostFiveCalls ==
    \A p \in Procs :
        pr[p].top = "request" =>
            /\ HttpCalls(p) <= 5
            /\ pr[p].nOrig <= 2
            /\ pr[p].nTok <= 3
            /\ Truthy(pr[p].pre.mgr.user_token) =>
                   (HttpCalls(p) <= 4 /\ pr[p].nTok <= 2)

C4_Witness ==
    \E p \in Procs :
        /\ pr[p].top = "request" /\ Done(p)
        /\ pr[p].ret.kind = "response"
        /\ HttpCalls(p) = 5
        /\ pr[p].rresp = "500"

RefreshFailed(p) ==
    /\ pr[p].top = "refresh"
    /\ Done(p)
    /\ pr[p].nTok = 1                       \* a refresh token was held, the call went out
    /\ ~(pr[p].rresp = "ok" /\ Truthy(pr[p].newTok))

\* C5 as claimed: whenever refresh_access_token() with a refresh token held fails (any
\* non-2xx status, a network error, a 2xx answer that is malformed or has no
\* access_token) it returns None and the manager is left without access token,
\* without refresh token and without cache file.
C5_AnyRefreshFailureClears ==
    \A p \in Procs :
        RefreshFailed(p) =>
            /\ pr[p].ret = [kind |-> "value", val |-> None]
            /\ mgr = NoTokens
            /\ cache = NoFile

\* C6: a refresh the token endpoint answers with 401 returns None and leaves no access
\* token, no refresh token and no cache file; the task's next ensure_user_token() runs
\* the authorization flow, and a token it returns comes from a new exchange.
C6_Refresh401ThenReauthorize ==
    \A p \in Procs :
        /\ (pr[p].top = "refresh" /\ Done(p) /\ pr[p].rresp = "401") =>
              /\ Returned(p, None)
              /\ mgr = NoTokens
              /\ cache = NoFile
        /\ (pr[p].top = "ensure" /\ pr[p].after401) =>
              /\ pr[p].pre.mgr = NoTokens
              /\ pr[p].pre.cache = NoFile
              /\ pr[p].nFlows = 1
              /\ (Done(p) /\ pr[p].ret.kind = "value") =>
                    (pr[p].nTok = 1 /\ pr[p].ret.val = mgr.user_token
                     /\ Truthy(pr[p].ret.val))

C6_Witness ==
    \E p \in Procs :
        /\ pr[p].top = "ensure" /\ pr[p].after401
        /\ Returned(p, "T2")
        /\ pr[p].nFlows = 1

C8_FutureResolvedOnce ==
    \A p \in Procs :
        /\ pr[p].nSets <= 1
        /\ ~pr[p].cbRaised
        /\ pr[p].setBy \in {0, 1}
        /\ pr[p].fut.state = "result" =>
               (pr[p].setBy = 1 /\ pr[p].fut.value = pr[p].firstCb
                /\ pr[p].firstCb \in Codes)
        /\ pr[p].fut.state = "exception" =>
               (pr[p].setBy = 1 /\ pr[p].firstCb = NoCode)
        /\ (pr[p].nCb >= 1 /\ pr[p].setBy = 0) => pr[p].fut.state = "cancelled"

C8_Witness ==
    \E p \in Procs :
        /\ pr[p].nCb = MaxCallbacks
        /\ pr[p].gc = "running"
        /\ pr[p].fut = [state |-> "result", value |-> "c1"]
        /\ pr[p].firstCb = "c1"

Listened(p) == pr[p].gc = "exited" /\ pr[p].site # "none"

\* C9 as claimed: on every exit of get_code() after the listener was started the
\* listener is stopped and the port is free of it: no state has get_code() completed
\* with its site still bound to the port.
C9_ListenerStoppedOnExit ==
    \A p \in Procs :
        Listened(p) => (pr[p].site # "bound" /\ port # p)

\* C10 as claimed: after a cancellation during the wait for the code, code_future is
\* cancelled and site stop and runner cleanup run to completion before get_code()
\* raises, also when a further cancellation arrives during the cleanup.
C10_CleanupNotInterruptible ==
    \A p \in Procs :
        ( /\ pr[p].gc = "exited"
          /\ Len(pr[p].cancels) >= 1
          /\ pr[p].cancels[1] = "gc_wait" )
        => /\ FutDone(pr[p].fut)
           /\ pr[p].site = "stopped"
           /\ pr[p].runner = "clean"
           /\ port # p

\* C11: from a manager without tokens and without a cache file, an ensure_user_token()
\* whose flow received a code and whose exchange the token endpoint answered with
\* access token T and refresh token R returns T after one flow and one exchange, the
\* manager holds (T, R) and the cache file holds {app_id: AppId, T, R}.
C11_FirstAuthorization ==
    \A p \in DOMAIN pr :
        ( /\ pr[p].top = "ensure"
          /\ pr[p].pre.mgr = NoTokens
          /\ pr[p].pre.cache = NoFile
          /\ pr[p].xresp.kind = "ok"
          /\ Truthy(pr[p].xresp.access) )
        => /\ Returned(p, pr[p].xresp.access)
           /\ pr[p].code \in Codes
           /\ pr[p].nFlows = 1
           /\ pr[p].nTok = 1
           /\ mgr = [user_token |-> pr[p].xresp.access,
                     refresh_token |-> pr[p].xresp.refresh]
           /\ cache = Record(AppId, pr[p].xresp.access, pr[p].xresp.refresh)

C11_Witness ==
    \E p \in DOMAIN pr :
        /\ pr[p].top = "ensure"
        /\ pr[p].pre = [mgr |-> NoTokens, cache |-> NoFile]
        /\ pr[p].code = "c1"
        /\ Returned(p, "T1")
        /\ mgr = [user_token |-> "T1", refresh_token |-> "R1"]
        /\ cache = Record(AppId, "T1", "R1")

\* get_code() raised the port conflict of lines 183-187
PortConflict(p) ==
    pr[p].gc = "exited" /\ pr[p].pend = "OSError" /\ pr[p].site = "none"

\* C12: a get_code() that finds the port occupied sleeps and re-checks at most
\* PortWaitChecks times; while it waits, and when it gives up, it has created no
\* future, no runner and no site, bound no listener and opened no browser; it gives
\* up with OSError only after the last of these sleeps, every check having found the
\* port occupied; once a check finds the port free the flow goes on to create the
\* future and the listener.
C12_PortWaitBounded ==
    \A p \in DOMAIN pr :
        /\ pr[p].ticks <= PortWaitChecks
        /\ pr[p].pc = "gc_poll" =>
              /\ pr[p].waited
              /\ pr[p].ticks < PortWaitChecks
              /\ pr[p].fut = NoFuture /\ pr[p].runner = "none" /\ pr[p].site = "none"
        /\ PortConflict(p) =>
              /\ Done(p)
              /\ pr[p].ret = [kind |-> "raised", val |-> "OSError"]
              /\ pr[p].waited
              /\ pr[p].ticks = PortWaitChecks
              /\ pr[p].fut = NoFuture /\ pr[p].runner = "none"
              /\ pr[p].nFlows = 1 => (~pr[p].listened /\ ~pr[p].browser)
        /\ (pr[p].waited /\ pr[p].gc = "running" /\ pr[p].pc # "gc_poll") =>
              /\ pr[p].ticks = 0
              /\ pr[p].fut # NoFuture /\ pr[p].runner # "none"

C12_Witness ==
    \E p \in DOMAIN pr :
        /\ pr[p].top = "setup"
        /\ PortConflict(p)
        /\ pr[p].ticks = PortWaitChecks
        /\ pr[p].ret.val = "OSError"
        /\ ~pr[p].browser

\* C13: set_tokens(access, refresh) puts access in memory and writes the cache record
\* of the tokens then held; a refresh that is None or empty leaves the refresh token
\* held before in memory and in the record, a refresh that is given replaces it.
C13_SetTokensKeepsOmittedRefresh ==
    \A p \in DOMAIN pr :
        pr[p].top = "set_tokens" =>
            /\ Returned(p, None)
            /\ mgr.user_token = pr[p].arg.access_token
            /\ mgr.refresh_token =
                  IF Truthy(pr[p].arg.refresh_token) THEN pr[p].arg.refresh_token
                  ELSE pr[p].pre.mgr.refresh_token
            /\ cache = Record(AppId, mgr.user_token, mgr.refresh_token)

C13_Witness ==
    \E p \in DOMAIN pr :
        /\ pr[p].top = "set_tokens" /\ Done(p)
        /\ pr[p].pre.mgr = [user_token |-> "T1", refresh_token |-> "R1"]
        /\ pr[p].arg = [access_token |-> "T2", refresh_token |-> Empty]
        /\ mgr = [user_token |-> "T2", refresh_token |-> "R1"]
        /\ cache = Record(AppId, "T2", "R1")

\* C14: clear_tokens() returns without raising and leaves no access token, no refresh
\* token and no cache file, whatever was held and whether or not a file was there;
\* in every reachable state a second clear_tokens() changes nothing the first left.
C14_ClearTokensIdempotent ==
    \A p \in DOMAIN pr :
        /\ pr[p].top = "clear_tokens" =>
              (Returned(p, None) /\ mgr = NoTokens /\ cache = NoFile)
        /\ LET once == clear_tokens(Cur(p, FALSE))
           IN /\ once.mgr = NoTokens
              /\ once.cache = NoFile
              /\ clear_tokens(once) = once

C14_Witness ==
    \E p \in DOMAIN pr :
        /\ pr[p].top = "clear_tokens" /\ Done(p)
        /\ ~pr[p].first
        /\ pr[p].pre = [mgr |-> NoTokens, cache |-> NoFile]
        /\ mgr = NoTokens /\ cache = NoFile

\* the step in which task p issues the retried call of _request
RetryIssued(p) == pr[p].top = "request" /\ pr[p].nOrig = 1 /\ pr'[p].nOrig = 2

\* C15 as claimed: the retry is issued only once the new token is in memory and in
\* the cache file, it carries that token, and that token is never the one that
\* received the 401.
C15_RetryNeverCarries401Token ==
    \A p \in DOMAIN pr :
        (pr[p].top = "request" /\ pr[p].nOrig = 2) =>
            /\ mgr.user_token = pr[p].sent[2]
            /\ cache = Record(AppId, pr[p].sent[2], mgr.refresh_token)
            /\ pr[p].sent[2] # pr[p].sent[1]

\* C15 as amended: in the step that issues the retry the token returned by the refresh
\* (or by the exchange of the re-authorization) has been set in memory and written to
\* the cache file, and the retry carries that token; it has the value of the token
\* that received the 401 only when the token endpoint issued that value again.
C15_RetryCarriesCommittedToken ==
    [][ \A p \in DOMAIN pr :
          RetryIssued(p) =>
            /\ Truthy(pr'[p].sent[2])
            /\ pr'[p].sent[2] = IF pr'[p].stage = "reauth" THEN pr'[p].xresp.access
                                ELSE pr'[p].newTok
            /\ IF pr'[p].stage = "reauth" THEN pr'[p].xresp.kind = "ok"
               ELSE pr'[p].rresp = "ok"
            /\ mgr'.user_token = pr'[p].sent[2]
            /\ cache' = Record(AppId, pr'[p].sent[2], mgr'.refresh_token)
            /\ pr'[p].tok = pr'[p].sent[2]
      ]_vars

C15_Witness ==
    \E p \in DOMAIN pr :
        /\ pr[p].top = "request" /\ pr[p].pc = "send2"
        /\ pr[p].sent = <<"T1", "T1">>
        /\ pr[p].newTok = "T1"
        /\ pr[p].rresp = "ok"
        /\ mgr.user_token = "T1"
        /\ cache = Record(AppId, "T1", "R2")

\* the refresh of a _request() whose first response was 401 has yielded no token
RefreshYieldedNone(p) ==
    /\ pr[p].top = "request"
    /\ Len(pr[p].resp) >= 1
    /\ pr[p].resp[1] = "401"
    /\ pr[p].nRefresh = 1
    /\ pr[p].pc # "refresh_wait"
    /\ ~Truthy(pr[p].newTok)

\* C18: a _request() whose first response is 401 and whose refresh yields no token
\* clears the tokens and runs the authorization flow; when the exchange yields a token
\* the call is issued once more with it and the response to that call is the result;
\* otherwise the invocation raises; there is never a third call.
C18_ReauthorizeThenOneRetry ==
    \A p \in DOMAIN pr :
        RefreshYieldedNone(p) =>
            /\ pr[p].stage = "reauth"
            /\ pr[p].nClear = 1
            /\ pr[p].nFlows >= 1
            /\ pr[p].nOrig <= 2
            /\ (pr[p].xresp.kind = "ok" /\ Truthy(pr[p].xresp.access)) <=> pr[p].nOrig = 2
            /\ pr[p].nOrig = 2 =>
                  (pr[p].sent[2] = pr[p].xresp.access /\ pr[p].pc \in {"send2", "done"})
            /\ (Done(p) /\ pr[p].nOrig = 2 /\ pr[p].ret.kind # "raised") =>
                  /\ Len(pr[p].resp) = 2
                  /\ pr[p].ret = [kind |-> "response", val |-> pr[p].resp[2]]
            /\ (Done(p) /\ pr[p].ret.kind = "raised" /\ pr[p].nOrig = 2) =>
                  (Len(pr[p].resp) = 1 /\ pr[p].ret.val = "RequestError")
            /\ (Done(p) /\ pr[p].nOrig = 1) => pr[p].ret.kind = "raised"

C18_Witness ==
    \E p \in DOMAIN pr :
        /\ RefreshYieldedNone(p) /\ Done(p)
        /\ pr[p].rresp = "500"
        /\ pr[p].stage = "reauth"
        /\ pr[p].xresp.access = "T2"
        /\ pr[p].sent = <<"T1", "T2">>
        /\ pr[p].resp = <<"401", "200">>
        /\ pr[p].ret = [kind |-> "response", val |-> "200"]

\* the refresh of task p was answered with a token, and the pair it committed is what
\* the manager holds
HoldsRefreshOf(p) ==
    /\ pr[p].top = "request"
    /\ pr[p].rresp = "ok"
    /\ Truthy(pr[p].newTok)
    /\ mgr.user_token = pr[p].newTok

\* the refresh task q is waiting for was started with a refresh token that has been
\* replaced since
RefreshSuperseded(q) ==
    /\ pr[q].pc = "refresh_wait"
    /\ Truthy(mgr.refresh_token)
    /\ pr[q].rtSent # mgr.refresh_token

\* C16 as claimed: when two _request() invocations see 401 concurrently, a token pair
\* committed by the refresh of one is not wiped by the other's refresh, started with
\* the refresh token that pair replaced, when that refresh fails.
C16_NoTokenUpdateLost ==
    [][ \A p, q \in DOMAIN pr :
          (p # q /\ HoldsRefreshOf(p) /\ RefreshSuperseded(q) /\ pr'[q].rresp # "ok")
          => (mgr' = mgr /\ cache' = cache)
      ]_vars

\* a flow that runs while another task holds the port has no listener of its own
\* bound: it waits, has yet to try, has failed to bind, or has stopped its listener
WaitsOrFails(p) ==
    /\ pr[p].site \in {"none", "created", "stopped"}
    /\ pr[p].pc # "gc_wait"
    /\ (pr[p].site = "created" /\ pr[p].pc \in {"gc_stop_site", "gc_cleanup", "gc_grace"})
          => pr[p].pend \in {"OSError", "CancelledError"}

\* C17: of two overlapping get_code() calls on one manager at most one has a listener
\* bound to the callback port at any time; the call that finds the port taken waits in
\* _wait_for_port_release or fails with OSError at site.start().
C17_OneListenerAtATime ==
    \A p, q \in DOMAIN pr :
        /\ pr[p].site = "bound" => port = p
        /\ (p # q /\ pr[p].site = "bound") => pr[q].site # "bound"
        /\ (p # q /\ port = q /\ pr[p].gc = "running") => WaitsOrFails(p)

C17_Witness ==
    /\ pr["p1"].pc = "gc_wait"
    /\ pr["p1"].site = "bound"
    /\ port = "p1"
    /\ pr["p2"].gc = "running"
    /\ ~pr["p2"].waited
    /\ pr["p2"].site = "created"
    /\ pr["p2"].pend = "OSError"

\* C19 as claimed: no failure of a call on the cache file or its directory reaches a
\* caller: OAuthManager(...), set_tokens() and clear_tokens() never raise; a load that
\* fails leaves no tokens; set_tokens() and clear_tokens() update the tokens in memory
\* also when the save or the delete fails.
C19_CacheFailuresNeverPropagate ==
    /\ made = "ok"
    /\ fresh => mgr \in {load_tokens_from_cache(cache), NoTokens}
    /\ (fresh /\ cache.kind # "record") => mgr = NoTokens
    /\ \A p \in DOMAIN pr :
         /\ pr[p].top = "set_tokens" =>
               /\ Returned(p, None)
               /\ mgr.user_token = pr[p].arg.access_token
               /\ mgr.refresh_token =
                     IF Truthy(pr[p].arg.refresh_token) THEN pr[p].arg.refresh_token
                     ELSE pr[p].pre.mgr.refresh_token
         /\ pr[p].top = "clear_tokens" => (Returned(p, None) /\ mgr = NoTokens)

\* C20 as claimed: when the first request on the callback route carries no code and
\* finds code_future pending, the future is resolved with the failure, no exchange is
\* called, the tokens stay as they were, and get_code() exits with its listener
\* stopped and its runner cleaned up, raising ValueError (CancelledError if the task
\* was cancelled meanwhile).
C20_NoCodeCallbackFailsCleanly ==
    \A p \in DOMAIN pr :
        (pr[p].firstCb = NoCode /\ pr[p].setBy = 1) =>
            /\ pr[p].fut = [state |-> "exception", value |-> "ValueError"]
            /\ pr[p].code = None
            /\ pr[p].pc # "exchange"
            /\ pr[p].top \in {"setup", "ensure"} =>
                  (mgr = pr[p].pre.mgr /\ cache = pr[p].pre.cache /\ pr[p].nTok = 0)
            /\ pr[p].gc = "exited" =>
                  /\ pr[p].ret.kind = "raised"
                  /\ pr[p].cancels = <<>> => pr[p].ret.val = "ValueError"
                  /\ pr[p].site = "stopped"
                  /\ pr[p].runner = "clean"
                  /\ port # p

\* C24: setup_user_token() raises and leaves the tokens and the cache file as they
\* were when the exchange is answered with a non-2xx status, fails, or is answered 2xx
\* without a non-empty access_token; it stores tokens, the answered ones, only when
\* the answer carries a non-empty access_token.
C24_ExchangeFailureStoresNothing ==
    \A p \in DOMAIN pr :
        (pr[p].top = "setup" /\ pr[p].xresp.kind # "none") =>
            IF pr[p].xresp.kind = "ok" /\ Truthy(pr[p].xresp.access)
            THEN /\ Returned(p, None)
                 /\ mgr.user_token = pr[p].xresp.access
                 /\ mgr.refresh_token =
                       IF Truthy(pr[p].xresp.refresh) THEN pr[p].xresp.refresh
                       ELSE pr[p].pre.mgr.refresh_token
                 /\ cache = Record(AppId, mgr.user_token, mgr.refresh_token)
            ELSE /\ Done(p)
                 /\ pr[p].ret.kind = "raised"
                 /\ pr[p].ret.val = IF pr[p].xresp.kind = "ok" THEN "ValueError"
                                    ELSE ExcOf(pr[p].xresp)
                 /\ mgr = pr[p].pre.mgr
                 /\ cache = pr[p].pre.cache

C24_Witness ==
    \E p \in DOMAIN pr :
        /\ pr[p].top = "setup" /\ Done(p)
        /\ pr[p].xresp = TokResp("ok", "200", Empty, "R2")
        /\ pr[p].ret = [kind |-> "raised", val |-> "ValueError"]
        /\ pr[p].pre.mgr = [user_token |-> "T1", refresh_token |-> "R1"]
        /\ mgr = pr[p].pre.mgr
        /\ cache = Record(AppId, "T1", "R1")

\* what one manager can hold: one access token and one refresh token, or none
TokenPairs ==
    [user_token : AccessTokens \cup {None, Empty},
     refresh_token : RefreshTokens \cup {None}]

\* the cache file agrees with the memory
Agree ==
    \/ mgr = NoTokens /\ cache = NoFile
    \/ Truthy(mgr.user_token)
         /\ cache = Record(AppId, mgr.user_token, mgr.refresh_token)

\* C26: the manager holds one access token and one refresh token at most, and every
\* step of an operation that changes the tokens or the file (set_tokens, clear_tokens,
\* inside a refresh or an authorization or called from outside) leaves the file in
\* agreement with the memory: absent when the tokens were cleared, else the record of
\* the manager's app_id and exactly the two tokens in memory.
C26_CacheAgreesWithMemory ==
    /\ [](mgr \in TokenPairs)
    /\ [][ (fresh' = FALSE /\ (mgr' # mgr \/ cache' # cache)) => Agree' ]_vars

C26_Witness ==
    \E p \in DOMAIN pr :
        /\ pr[p].top = "refresh" /\ Done(p)
        /\ Mismatched(pr[p].pre.cache) = FALSE
        /\ pr[p].pre.mgr = [user_token |-> Empty, refresh_token |-> "R1"]
        /\ pr[p].newTok = "T2"
        /\ mgr = [user_token |-> "T2", refresh_token |-> "R1"]
        /\ cache = Record(AppId, "T2", "R1")

\* C30 as claimed: a get_code() that created code_future leaves it done (result,
\* exception or cancelled) on every exit path; stated here for the exits reached
\* with at most one cancellation of the task.
C30_NoPendingFutureAfterExit ==
    \A p \in DOMAIN pr :
        (pr[p].gc = "exited" /\ pr[p].fut # NoFuture /\ Len(pr[p].cancels) <= 1)
        => FutDone(pr[p].fut)

\* C22 as claimed: every redirect to redirect_uri that arrives while the listener is
\* bound is served by handle_callback, for every configured path: none is answered
\* 404, and the first one resolves code_future.
C22_RedirectReachesHandler ==
    \A p \in DOMAIN pr :
        /\ pr[p].n404 = 0
        /\ (pr[p].nCb >= 1 /\ pr[p].setBy = 0) => pr[p].fut.state = "cancelled"

\* get_code() of task p has left the wait for the code without a callback having
\* resolved code_future and without a cancellation
WaitedInVain(p) ==
    /\ pr[p].gc = "exited"
    /\ pr[p].site = "stopped"
    /\ pr[p].setBy = 0
    /\ pr[p].cancels = <<>>

\* C23: a get_code() whose wait ends without a callback having resolved code_future
\* and without a cancellation raises TimeoutError; and every get_code() that was
\* started exits (returns or raises) in the end, whatever the callbacks, the port and
\* the cancellations do.
C23_GetCodeTerminates ==
    /\ [](\A p \in Procs : WaitedInVain(p) => pr[p].pend = "TimeoutError")
    /\ \A p \in Procs : (pr[p].gc = "running") ~> (pr[p].gc = "exited")

C23_Witness ==
    \E p \in DOMAIN pr :
        /\ WaitedInVain(p)
        /\ pr[p].nCb + pr[p].n404 = MaxCallbacks
        /\ pr[p].fut.state = "cancelled"
        /\ pr[p].ret = [kind |-> "raised", val |-> "TimeoutError"]

\* the step is the construction of a new manager over the cache file
Constructed == fresh' /\ made' = "ok"

\* C27: a manager constructed after set_tokens(a, r) on another one of the same
\* app_id, the file untouched in between, starts with the tokens that one held (a, and
\* r or the refresh token it kept); one constructed after clear_tokens() starts
\* without tokens; and the file is read at construction only: whatever other
\* instances do to it afterwards, ensure_user_token() returns the access token held
\* in memory and refresh_access_token() sends the refresh token held in memory.
C27_TokensRoundTrip ==
    /\ [][ \A p \in Procs :
             (Constructed /\ Done(p)
                /\ cache = Record(AppId, mgr.user_token, mgr.refresh_token)
                /\ pr[p].top = "set_tokens") =>
                   /\ mgr'.user_token = pr[p].arg.access_token
                   /\ mgr'.refresh_token =
                         IF Truthy(pr[p].arg.refresh_token)
                         THEN pr[p].arg.refresh_token
                         ELSE pr[p].pre.mgr.refresh_token ]_vars
    /\ [][ \A p \in Procs :
             (Constructed /\ Done(p) /\ cache = NoFile
                /\ pr[p].top = "clear_tokens") => mgr' = NoTokens ]_vars
    /\ [](\A p \in Procs :
             /\ (pr[p].top = "ensure" /\ Truthy(pr[p].pre.mgr.user_token)) =>
                   Returned(p, pr[p].pre.mgr.user_token)
             /\ (pr[p].top = "refresh" /\ pr[p].nTok = 1) =>
                   pr[p].rtSent = pr[p].pre.mgr.refresh_token)

\* a manager holds tokens that the cache file, changed by another instance, no
\* longer holds, and ensure_user_token() has returned the token in memory
C27_Witness ==
    \E p \in Procs :
       /\ pr[p].top = "ensure" /\ Done(p)
       /\ Truthy(mgr.user_token)
       /\ cache = Record(AppId, "T1", None)
       /\ mgr.user_token = "T2"

\* task p has received 401 for its first request and its refresh or re-authorization
\* has not finished
Recovering(p) ==
    /\ pr[p].top = "request" /\ pr[p].pc # "done"
    /\ pr[p].resp = <<"401">>

\* C29: nothing makes a _request() invocation that receives 401 wait for, or join,
\* the recovery of another invocation: in the step that delivers the 401 it starts
\* its own refresh call with the refresh token the manager holds at that moment, or,
\* with no refresh token held, its own re-authorization, whatever the other
\* invocation is doing.
C29_NoSingleFlight ==
    [][ \A p \in Tasks :
          (pr[p].pc = "send1" /\ pr'[p].resp = <<"401">>) =>
             /\ pr'[p].nRefresh = 1
             /\ Truthy(mgr.refresh_token) =>
                   /\ pr'[p].pc = "refresh_wait"
                   /\ pr'[p].nTok = 1
                   /\ pr'[p].rtSent = mgr.refresh_token
             /\ ~Truthy(mgr.refresh_token) =>
                   /\ pr'[p].nFlows = 1
                   /\ pr'[p].gc = "running" ]_vars

\* both invocations have sent a refresh call with the same refresh token and neither
\* has received its response
C29_Witness ==
    /\ \A p \in Tasks : Recovering(p) /\ pr[p].pc = "refresh_wait"
    /\ pr["p1"].rtSent = pr["p2"].rtSent

\* task p ran a DocumentService operation, which has returned or raised
DocumentDone(p) == Done(p) /\ pr[p].calls > 0

\* the last response task p's _request received was a 2xx with a JSON body of code 0
GoodResponse(p) ==
    /\ pr[p].resp # <<>>
    /\ pr[p].resp[Len(pr[p].resp)] = "200"
    /\ pr[p].body.json /\ pr[p].body.code = <<0>>

\* C21: a DocumentService operation whose task is not cancelled never raises: it
\* returns a result, and the result can be a success only when its last _request call
\* returned a 2xx response whose JSON body has code 0; after a non-2xx status, a
\* non-zero or missing code, malformed JSON, a network error, a port conflict, an
\* authorization timeout or a failed token exchange the result has success=false.
C21_DocumentOperationsNeverRaise ==
    \A p \in Procs :
       DocumentDone(p) =>
          /\ pr[p].ret.kind = "result"
          /\ pr[p].ret.val \in {"success", "failure"}
          /\ pr[p].ret.val = "success" =>
                (GoodResponse(p) /\ pr[p].call = pr[p].calls)

\* a DocumentService operation whose re-authorization ran into the timeout has
\* returned a failure result
C21_Witness ==
    \E p \in Procs :
       /\ DocumentDone(p)
       /\ pr[p].pend = "TimeoutError"
       /\ pr[p].ret = [kind |-> "result", val |-> "failure"]

\* task p called _request directly, with headers of its own
Direct(p) == pr[p].top = "request" /\ pr[p].track /\ pr[p].calls = 0

\* C25: every call _request issues carries the caller's headers with Authorization
\* set to Bearer and the token of that call, whatever Authorization the caller gave,
\* and with Content-Type application/json when the caller gave none and the caller's
\* value otherwise; the retried call differs from the first in Authorization only.
C25_HeadersSent ==
    \A p \in Procs :
       Direct(p) =>
          /\ Len(pr[p].hsent) = Len(pr[p].sent)
          /\ \A i \in 1..Len(pr[p].hsent) :
                /\ pr[p].hsent[i].auth = Bearer(pr[p].sent[i])
                /\ pr[p].hsent[i].ctype =
                      IF pr[p].hdr.ctype = None THEN "application/json"
                      ELSE pr[p].hdr.ctype

\* a caller gave an Authorization and a Content-Type of its own, and _request has
\* issued the call and, after a 401, the retry with another token
C25_Witness ==
    \E p \in Procs :
       /\ Direct(p) /\ Done(p)
       /\ pr[p].hdr = [auth |-> <<"Basic", "x">>, ctype |-> "text/plain"]
       /\ Len(pr[p].hsent) = 2
       /\ pr[p].sent[1] # pr[p].sent[2]

\* C28: _request returns a first response that is not 401 as it is, without another
\* call, a refresh or a look at the body, and returns the response to its retried
\* call whatever it is; _parse_response gives the body of such a response exactly
\* when the status is 2xx and the body is JSON with code 0, and raises otherwise.
C28_BusinessCodeLeftToCaller ==
    \A p \in Procs :
       Direct(p) =>
          /\ (pr[p].resp # <<>> /\ pr[p].resp[1] # "401") =>
                /\ pr[p].ret = [kind |-> "response", val |-> pr[p].resp[1]]
                /\ pr[p].nOrig = 1 /\ pr[p].nRefresh = 0 /\ pr[p].nClear = 0
          /\ (Done(p) /\ pr[p].ret.kind = "response") =>
                /\ pr[p].ret.val = pr[p].resp[Len(pr[p].resp)]
                /\ LET r == parse_response(pr[p].ret.val, pr[p].body)
                   IN /\ r.kind = "value" <=> GoodResponse(p)
                      /\ r.kind = "value" => r.val = pr[p].body
                      /\ r.kind # "value" => r.kind = "raised"

\* _request has returned a 200 response whose body carries a non-zero code
C28_Witness ==
    \E p \in Procs :
       /\ Direct(p) /\ Done(p)
       /\ pr[p].ret = [kind |-> "response", val |-> "200"]
       /\ pr[p].body = [json |-> TRUE, code |-> <<7>>]

\* the first response of task p's _request() had a status other than 401
FirstNot401(p) ==
    /\ pr[p].top = "request"
    /\ pr[p].resp # <<>>
    /\ pr[p].resp[1] # "401"

\* C34 as claimed: when the first response of a _request() is not 401, one HTTP call
\* was issued, refresh_access_token(), clear_tokens() and setup_user_token() were not
\* called, and the tokens and the cache file are those of the start of the invocation.
C34_Not401TouchesNothing ==
    \A p \in Procs :
        FirstNot401(p) =>
            /\ pr[p].nOrig = 1 /\ pr[p].nTok = 0
            /\ pr[p].nRefresh = 0 /\ pr[p].nClear = 0 /\ pr[p].nFlows = 0
            /\ mgr = pr[p].pre.mgr
            /\ cache = pr[p].pre.cache

\* C34 amended: when the first response of a _request() is not 401, the call was
\* issued once and its response is the result, refresh_access_token() and
\* clear_tokens() were not called; with an access token held at the start nothing
\* else happened and the tokens and the cache file are unchanged; with none held,
\* ensure_user_token() ran setup_user_token() once before the call, and the tokens
\* and the file are those its exchange stored.
C34_Not401EndsTheInvocation ==
    \A p \in Procs :
        FirstNot401(p) =>
            /\ pr[p].nOrig = 1
            /\ pr[p].nRefresh = 0 /\ pr[p].nClear = 0
            /\ pr[p].ret = [kind |-> "response", val |-> pr[p].resp[1]]
            /\ IF Truthy(pr[p].pre.mgr.user_token)
               THEN /\ pr[p].nFlows = 0 /\ pr[p].nTok = 0
                    /\ pr[p].sent = <<pr[p].pre.mgr.user_token>>
                    /\ mgr = pr[p].pre.mgr
                    /\ cache = pr[p].pre.cache
               ELSE /\ pr[p].nFlows = 1 /\ pr[p].nTok = 1
                    /\ pr[p].stage = "ensure"
                    /\ Truthy(pr[p].xresp.access)
                    /\ pr[p].sent = <<pr[p].xresp.access>>
                    /\ mgr.user_token = pr[p].xresp.access
                    /\ cache = Record(AppId, mgr.user_token, mgr.refresh_token)

\* a _request() on a manager without a token has authorized first and returned the
\* 500 that answered its call
C34_Witness ==
    \E p \in Procs :
        /\ FirstNot401(p) /\ Done(p)
        /\ pr[p].pre.mgr = NoTokens
        /\ pr[p].resp = <<"500">>
        /\ pr[p].nFlows = 1
        /\ mgr.user_token = "T1"

\* C35: ensure_user_token() either raises or returns a non-empty token, the access
\* token the manager holds at that moment.
C35_EnsureReturnsHeldToken ==
    \A p \in Procs :
        (pr[p].top = "ensure" /\ Done(p)) =>
            \/ pr[p].ret.kind = "raised"
            \/ /\ pr[p].ret.kind = "value"
               /\ Truthy(pr[p].ret.val)
               /\ pr[p].ret.val = mgr.user_token

\* ensure_user_token() on a manager holding an empty access token has authorized and
\* returned the token of the exchange
C35_Witness ==
    \E p \in Procs :
        /\ pr[p].top = "ensure"
        /\ pr[p].pre.mgr.user_token = Empty
        /\ Returned(p, "T2")
        /\ mgr.user_token = "T2"

\* C33: while a setup_user_token() call has not returned, and once it has raised
\* (port conflict, timeout, cancellation, callback without code, exchange error,
\* answer without access token), the manager's tokens and the cache file are those of
\* the start of the call; they differ only once the call has returned.
C33_FailedSetupChangesNothing ==
    \A p \in Procs :
        (pr[p].top = "setup" /\ ~Returned(p, None)) =>
            /\ mgr = pr[p].pre.mgr
            /\ cache = pr[p].pre.cache

\* a setup_user_token() on a manager holding tokens has ended by the timeout
C33_Witness ==
    \E p \in Procs :
        /\ pr[p].top = "setup" /\ Done(p)
        /\ pr[p].ret = [kind |-> "raised", val |-> "TimeoutError"]
        /\ pr[p].pre.mgr = [user_token |-> "T1", refresh_token |-> "R1"]
        /\ mgr = pr[p].pre.mgr
        /\ cache = Record(AppId, "T1", "R1")

\* C36: a request that reaches handle_callback when code_future is cancelled leaves
\* the future cancelled, sets nothing and does not raise, and what get_code() is
\* about to raise stays; a get_code() whose future is cancelled never returns a code.
C36_LateCallbackIgnored ==
    /\ [][ \A p \in Procs :
             (pr[p].fut.state = "cancelled" /\ pr'[p].nCb = pr[p].nCb + 1) =>
                /\ pr'[p].fut = pr[p].fut
                /\ pr'[p].nSets = pr[p].nSets
                /\ ~pr'[p].cbRaised
                /\ pr'[p].pend = pr[p].pend
                /\ pr'[p].pc = pr[p].pc ]_vars
    /\ [](\A p \in Procs :
             pr[p].fut.state = "cancelled" =>
                /\ pr[p].pend \in {"TimeoutError", "CancelledError", "OSError"}
                /\ pr[p].code = None
                /\ pr[p].gc = "exited" => (Done(p) /\ pr[p].ret.kind = "raised"))

\* after the timeout, the listener still bound, a request with a code has reached the
\* handler and found the future cancelled
C36_Witness ==
    \E p \in Procs :
        /\ pr[p].fut.state = "cancelled"
        /\ pr[p].pend = "TimeoutError"
        /\ pr[p].nCb = 1 /\ pr[p].firstCb = "c1"
        /\ pr[p].setBy = 0

\* task p runs the first operation of a manager constructed over a record of
\* another app_id
OverForeignRecord(p) == pr[p].first /\ Mismatched(pr[p].pre.cache)

\* C37 as claimed: constructing a manager leaves a record of another app_id as it
\* is, and so does the manager's first ensure_user_token(), whether it returns or
\* fails; its first set_tokens() replaces the record by its own and its first
\* clear_tokens() removes the file.
C37_ForeignRecordUntilSetOrClear ==
    /\ [][Constructed => cache' = cache]_vars
    /\ [](\A p \in Procs :
            OverForeignRecord(p) =>
               /\ pr[p].top = "ensure" => cache = pr[p].pre.cache
               /\ (pr[p].top = "set_tokens" /\ Done(p)) =>
                     cache = Record(AppId, pr[p].arg.access_token, mgr.refresh_token)
               /\ (pr[p].top = "clear_tokens" /\ Done(p)) => cache = NoFile)

\* C37 amended: constructing a manager leaves a record of another app_id as it is,
\* and so does the manager's first ensure_user_token() while it runs and when it
\* fails; when it returns, it has authorized and its set_tokens() has replaced the
\* record by the manager's own; the first set_tokens() called from outside replaces
\* the record too, and the first clear_tokens() removes the file.
C37_ForeignRecordUntilTokensStored ==
    /\ [][Constructed => cache' = cache]_vars
    /\ [](\A p \in Procs :
            OverForeignRecord(p) =>
               /\ pr[p].pre.mgr = NoTokens
               /\ pr[p].top = "ensure" =>
                     IF Done(p) /\ pr[p].ret.kind = "value"
                     THEN /\ pr[p].nFlows = 1
                          /\ pr[p].ret.val = pr[p].xresp.access
                          /\ cache = Record(AppId, pr[p].xresp.access,
                                            IF Truthy(pr[p].xresp.refresh)
                                            THEN pr[p].xresp.refresh ELSE None)
                     ELSE cache = pr[p].pre.cache
               /\ (pr[p].top = "set_tokens" /\ Done(p)) =>
                     cache = Record(AppId, pr[p].arg.access_token,
                                    IF Truthy(pr[p].arg.refresh_token)
                                    THEN pr[p].arg.refresh_token ELSE None)
               /\ (pr[p].top = "clear_tokens" /\ Done(p)) => cache = NoFile)

\* the first ensure_user_token() of a manager constructed over a record of another
\* app_id has returned, and the file holds the manager's own record
C37_Witness ==
    \E p \in Procs :
        /\ OverForeignRecord(p)
        /\ pr[p].pre.cache.access_token = "T1"
        /\ pr[p].top = "ensure" /\ Returned(p, "T2")
        /\ cache = Record(AppId, "T2", "R2")

\* C32: once the refresh of a _request() whose first response was 401 has yielded no
\* token, the tokens and the cache file are cleared before the re-authorization
\* starts and stay so while it runs; if it fails (port conflict, timeout,
\* cancellation, callback without code, failed exchange) the invocation raises
\* without a second call and the manager is left with no access token, no refresh
\* token and no cache file, also when the refresh failure had left the tokens in place.
C32_FailedReauthorizationLeavesNothing ==
    \A p \in Procs :
        (RefreshYieldedNone(p) /\ pr[p].nOrig = 1) =>
            /\ pr[p].stage = "reauth"
            /\ pr[p].nClear = 1
            /\ mgr = NoTokens
            /\ cache = NoFile
            /\ Done(p) =>
                  /\ pr[p].ret.kind = "raised"
                  /\ pr[p].resp = <<"401">>
                  /\ ~(pr[p].xresp.kind = "ok" /\ Truthy(pr[p].xresp.access))

\* the token endpoint answered the refresh with 500, which left the tokens in place;
\* the re-authorization then ran into the timeout
C32_Witness ==
    \E p \in Procs :
        /\ RefreshYieldedNone(p) /\ Done(p)
        /\ pr[p].pre.mgr = [user_token |-> "T1", refresh_token |-> "R1"]
        /\ pr[p].rresp = "500"
        /\ pr[p].ret = [kind |-> "raised", val |-> "TimeoutError"]
        /\ mgr = NoTokens
        /\ cache = NoFile

\* C31 as claimed: a _request() issues its call at most twice, starts at most one
\* refresh and at most one authorization flow, and, each HTTP call returning and the
\* wait for the code ending with its timeout at the latest, returns or raises.
C31_RequestTerminatesOneFlow ==
    /\ [](\A p \in Procs :
            pr[p].top = "request" =>
               (pr[p].nOrig <= 2 /\ pr[p].nRefresh <= 1 /\ pr[p].nFlows <= 1))
    /\ \A p \in Procs : (pr[p].top = "request") ~> Done(p)

\* C31 amended: a _request() issues its call at most twice, starts at most one
\* refresh and at most two authorization flows, one by ensure_user_token() when no
\* access token is held at the start and one after a refresh that yielded no token,
\* so at most one when a token is held at the start; each HTTP call returning and the
\* wait for the code ending with its timeout at the latest, it returns or raises.
C31_RequestTerminates ==
    /\ [](\A p \in Procs :
            pr[p].top = "request" =>
               /\ pr[p].nOrig <= 2 /\ Len(pr[p].resp) <= pr[p].nOrig
               /\ pr[p].nRefresh <= 1
               /\ pr[p].nFlows <= 2
               /\ Truthy(pr[p].pre.mgr.user_token) => pr[p].nFlows <= 1
               /\ pr[p].nFlows = 2 => pr[p].stage = "reauth")
    /\ \A p \in Procs : (pr[p].top = "request") ~> Done(p)

\* a _request() on a manager without a token has authorized, received 401, found no
\* refresh token, authorized again and returned the response to its second call
C31_Witness ==
    \E p \in Procs :
        /\ pr[p].top = "request" /\ Done(p)
        /\ pr[p].pre.mgr = NoTokens
        /\ pr[p].nFlows = 2
        /\ pr[p].nOrig = 2
        /\ pr[p].ret.kind = "response"

\* task p runs update_document
Updating(p) == pr[p].calls > 0 /\ pr[p].uargs # NoUpdate

\* C38: update_document called with requests None and with content or block_id None,
\* or block_id empty, returns a failure result at once: no HTTP call, no
\* authorization; called with a requests list it sends that list as given, whatever
\* content and block_id are; otherwise it sends one update_text_elements request for
\* block_id with content; a retried call carries the same requests.
C38_UpdateModes ==
    \A p \in Procs :
        Updating(p) =>
            LET a == pr[p].uargs
                j == IF a.requests.given
                     THEN Requests(a.requests.list)
                     ELSE Requests(<<UpdateRequest(a.block_id, a.content)>>)
            IN IF /\ ~a.requests.given
                  /\ (a.content = None \/ a.block_id = None \/ a.block_id = Empty)
               THEN /\ pr[p].ret = [kind |-> "result", val |-> "failure"]
                    /\ pr[p].nOrig = 0 /\ pr[p].nTok = 0 /\ pr[p].nFlows = 0
                    /\ pr[p].jsent = <<>>
               ELSE /\ pr[p].nOrig = Len(pr[p].jsent)
                    /\ \A i \in 1..Len(pr[p].jsent) : pr[p].jsent[i] = j
                    /\ pr[p].nOrig = 0 => ~Done(p)

\* update_document called with an empty requests list and nothing else has sent the
\* empty list and returned
C38_Witness ==
    \E p \in Procs :
        /\ Updating(p) /\ Done(p)
        /\ pr[p].uargs.requests = [given |-> TRUE, list |-> <<>>]
        /\ pr[p].uargs.content = None
        /\ pr[p].jsent = <<Requests(<<>>)>>
        /\ pr[p].ret.kind = "result"

====
